---- MODULE Spec2Model ----
(***************************************************************************)
(* A model of the scrape orchestration engine of ai-goofish-monitor        *)
(* (src/spider_v2.py).                                                     *)
(*                                                                         *)
(* Spec      one task (one keyword, hence one history file) run            *)
(*           repeatedly by scrape_xianyu: history load, navigation, the    *)
(*           verification overlay check, the filters, the page loop and    *)
(*           the item pipeline (detail fetch, assembly, analysis,          *)
(*           notification, append, dedup insert).                          *)
(* SpecMain  the orchestrator main().                                      *)
(* SpecCorr  the response waits (page.expect_response) of the filter and   *)
(*           page-advance steps, with the responses in flight.             *)
(*                                                                         *)
(* Strings are sequences of one-character strings.                         *)
(***************************************************************************)
EXTENDS Integers, Sequences, FiniteSets, Bags, TLC

\* ------------------------------------------------------------------ bounds
MaxPages == 2        \* largest max_pages of a task configuration
MaxItems == 2        \* most items one search response parses to
MaxRuns == 2         \* sequential runs of the task
MaxDebugLimit == 1   \* largest --debug-limit
MaxTasks == 3        \* most entries of the configuration file
MaxInFlight == 2     \* most matching responses in flight at a time
MaxHeadResponses == 2  \* most head responses of one profile page
MaxCards == 2        \* most cards the list responses of one profile bring
MaxScrolls == 2      \* the scroll counters stop counting here
MaxLines == 3        \* most lines of a history file at the start of a task
MaxLinkLen == 4      \* most characters of a link
MaxKeywordLen == 2   \* most characters of a keyword
MaxImages == 3       \* most images of an item
MaxRatings == 3      \* most rating cards of a seller
MaxDays == 800       \* most days since a seller registered
MaxResponseLen == 5  \* most tokens of an AI response
MaxProcs == 3        \* most scraper processes the server spawns
MaxRequests == 3     \* most task-configuration requests
MaxBytes == 4        \* most bytes the scraper writes to its log

\* ------------------------------------------------------- program constants
COOLDOWN_MIN == 300
COOLDOWN_MAX == 600

\* --------------------------------------------------------------- the state
VARIABLES
    file,              \* the history file jsonl/<keyword>_full_data.jsonl: a sequence of lines
    runs,              \* runs of scrape_xianyu started so far
    pc,                \* where the current run is
    task_config,       \* the run's task configuration and debug_limit
    processed_links,   \* the in-memory dedup set
    processed_item_count,
    stop_scraping,
    initial_response,  \* the search response captured at navigation
    final_response,    \* the search response of the last filter application
    current_response,  \* the response the page loop parses
    page_num,
    basic_items,       \* the items of the current page the item loop has not
                       \* handled yet (links): the loop is at the first of them
    detail_response,   \* the detail response of the item being processed
    ai_analysis_result,
    final_record,      \* the record assembled for the item being processed
    notification_sent, \* send_ntfy_notification was called for the current item
    item_outcome,      \* how the processing of the current item ended
    why,               \* why the run left (or is leaving) its page loop
    result,            \* what the run returned or raised
    \* history variables: they record what happened and decide nothing
    load_ok,           \* the run's history load read the whole file
    load_failed_ever,  \* some run's history load was cut short by an IOError
    hist_len,          \* length of the file when the run started
    len0,              \* length of the file when the current item was taken up
    cnt0,              \* processed_item_count when the current item was taken up
    cooldowns,         \* cooldown sleeps of this run
    long_sleep_duration,
    \* SpecMain
    m_pc,              \* where main() is
    args,              \* the command line: its --debug-limit
    tasks_config,      \* the entries of the configuration file
    coroutines,        \* the scrape coroutines created (entries of tasks_config)
    results,           \* what asyncio.gather returned, as summarised
    \* SpecCorr
    c_pc,              \* "off", "run" or "timed_out"
    c_config,          \* the filters of the task and its max_pages
    c_step,            \* the UI action the task is at (index of ui_steps)
    c_phase,           \* the position within a wrapped action (index of wait_phases)
    inflight,          \* matching responses requested and not yet delivered: a
                       \* bag of the steps that provoked them
    waiter,            \* the pending page.expect_response, if any
    c_response,        \* the response the last completed wait resolved with
                       \* (final_response, or current_response of a page advance)
    c_consumed,        \* history: responses that resolved a wait
    c_missed,          \* history: a response was delivered to nobody after the
                       \* wrapped action had started and before its wait resolved
    \* SpecProfile
    p_pc,              \* where scrape_user_profile (then its caller) is
    page_open,         \* the profile page is open
    listener_on,       \* handle_response is registered on the page
    head_api_future,   \* "pending", "result", "exception" or "cancelled"
    head_from,         \* history: the head response that completed the future
    head_arrived,      \* head responses that reached the listener, numbered in
                       \* order of arrival
    head_handlers,     \* head responses whose handler is awaiting response.json()
    all_items,         \* len(all_items)
    stop_item_scrolling,
    all_ratings,       \* len(all_ratings)
    stop_rating_scrolling,
    profile_data,      \* which parts the profile holds, and of how many cards
    seller_info,       \* the seller part of the caller's record
    p_exception,       \* the try block raised
    p_failed_at,       \* history: the statement that raised
    item_scrolls,      \* history: scrolls of the item loop
    rating_scrolls,    \* history: scrolls of the rating loop
    listener_raised,   \* history: an exception left handle_response
    \* SpecRetry
    r_pc,              \* where the wrapper of retry_on_failure (then the caller
                       \* of get_ai_analysis) is
    r_dec,             \* the decorated function and its decorator's arguments
    r_i,               \* the loop variable i
    r_attempts,        \* history: what each call of the function ended with
    r_sleeps,          \* history: sleeps done
    r_slept,           \* history: seconds slept
    r_result,          \* what the wrapper returned or raised
    r_call_outcome,    \* what the caller got: "value", or the exception raised
    r_ai_analysis,     \* final_record['ai_analysis']: verdict or error marker
    r_notification_sent,
    r_saved,           \* save_to_jsonl was called with the record
    \* SpecNotify
    n_pc,              \* where send_ntfy_notification (then its caller) is
    n_config,          \* which of NTFY_TOPIC_URL and WX_BOT_URL are set
    n_i,               \* the loop variable i of the retry wrapper
    n_posts,           \* history: requests.post calls made, by channel
    n_outcome,         \* history: how the last post of each channel ended
    n_cancelled,       \* history: the call was cancelled
    \* SpecLoad
    h_pc,              \* where the history load of scrape_xianyu is
    h_file,            \* the lines of the history file; <<>> with h_exists
                       \* false when there is no file
    h_exists,          \* os.path.exists(output_filename)
    h_pos,             \* lines read so far
    h_links,           \* processed_links
    h_skipped,         \* history: lines skipped with the warning of line 686
    \* SpecKey
    k_pc,              \* where the computation of an item's dedup key is
    k_link,            \* item_data['item_link']
    k_key,             \* unique_key
    k_again,           \* get_link_unique_key(unique_key)
    \* SpecFilename
    f_keyword,         \* task_config['keyword'] of each of two tasks
    f_read,            \* the file each task loaded its history from
    f_append,          \* the file each task appended a record to
    \* SpecSched
    s_pc,              \* what each of two concurrent tasks is waiting in
    s_debug_limit,     \* the debug_limit both tasks were started with
    s_holder,          \* the task whose synchronous call holds the event loop
                       \* thread, 0 when none
    \* SpecImages
    i_pc,              \* where download_all_images (then its caller) is
    i_urls,            \* for each image url, whether its file is in the cache
    i_idx,             \* images the loop is done with
    i_attempts,        \* history: calls of the download made for each image
    i_dropped,         \* history: the images skipped after a failure
    saved_paths,       \* the images appended to saved_paths, in order
    i_analysed_with,   \* the image paths the analysis was called with
    \* SpecReputation
    q_pc,              \* where calculate_reputation_from_ratings is
    ratings_json,      \* the rating cards: of each, what its role text holds
                       \* and its rate
    q_idx,             \* cards the loop is done with
    seller_total,
    seller_positive,
    buyer_total,
    buyer_positive,
    reputation,        \* the dictionary returned
    \* SpecDays
    d_pc,              \* where the call of format_registration_days is
    total_days,        \* its argument
    d_text,            \* the text it returned
    \* SpecExtract
    x_pc,              \* where the parsing of an AI response is
    ai_response_content,  \* the text of the response
    x_parsed,          \* what lines 637-655 gave: a decoded value or the error
    \* SpecOnce
    notified,          \* history: how often the fan-out was called, by dedup key
    \* SpecServer
    scraper_process,   \* web_server: the global, a pid or 0 for None
    w_procs,           \* the state of every scraper process the server spawned
    w_pc,              \* where each request handler is
    w_ref,             \* the process a stop-all handler waits for
    w_replies,         \* what the last request of each handler was answered with
    \* SpecConfig
    config_json,       \* config.json: the list of tasks
    prompt_files,      \* the criteria files that exist under prompts/
    g_pc,              \* where each task-configuration handler is
    g_tasks,           \* its local `tasks` (config_data), as read from config.json
    g_arg,             \* its request: the task to add, or the task_id
    g_requests,        \* requests taken so far
    g_created,         \* history: the tasks whose creation was answered with success
    g_deleted,         \* history: the tasks whose deletion was answered with success
    \* SpecLogs
    log_file,          \* logs/scraper.log: its bytes, each named by its number
    l_written,         \* bytes the scraper has written so far
    l_pc,              \* where the get_logs handler is
    from_pos,          \* the from_pos of the poll being handled
    file_size,         \* the size get_logs measured
    l_new_pos,         \* the new_pos last returned to the client
    l_delivered        \* history: the bytes returned to the client, in order

scrape_vars ==
    <<file, runs, pc, task_config, processed_links, processed_item_count, stop_scraping,
      initial_response, final_response, current_response, page_num, basic_items,
      detail_response, ai_analysis_result, final_record, notification_sent,
      item_outcome, why, result, load_ok, load_failed_ever, hist_len, len0, cnt0,
      cooldowns, long_sleep_duration>>
main_vars == <<m_pc, args, tasks_config, coroutines, results>>
corr_vars ==
    <<c_pc, c_config, c_step, c_phase, inflight, waiter, c_response, c_consumed,
      c_missed>>
profile_vars ==
    <<p_pc, page_open, listener_on, head_api_future, head_from, head_arrived,
      head_handlers, all_items, stop_item_scrolling, all_ratings, stop_rating_scrolling,
      profile_data, seller_info, p_exception, p_failed_at, item_scrolls, rating_scrolls,
      listener_raised>>
retry_vars ==
    <<r_pc, r_dec, r_i, r_attempts, r_sleeps, r_slept, r_result, r_call_outcome,
      r_ai_analysis, r_notification_sent, r_saved>>
notify_vars ==
    <<n_pc, n_config, n_i, n_posts, n_outcome, n_cancelled>>
load_vars ==
    <<h_pc, h_file, h_exists, h_pos, h_links, h_skipped>>
key_vars ==
    <<k_pc, k_link, k_key, k_again>>
filename_vars ==
    <<f_keyword, f_read, f_append>>
sched_vars ==
    <<s_pc, s_debug_limit, s_holder>>
images_vars ==
    <<i_pc, i_urls, i_idx, i_attempts, i_dropped, saved_paths, i_analysed_with>>
reputation_vars ==
    <<q_pc, ratings_json, q_idx, seller_total, seller_positive, buyer_total,
      buyer_positive, reputation>>
days_vars ==
    <<d_pc, total_days, d_text>>
extract_vars ==
    <<x_pc, ai_response_content, x_parsed>>
once_vars ==
    <<notified>>
server_vars ==
    <<scraper_process, w_procs, w_pc, w_ref, w_replies>>
config_vars ==
    <<config_json, prompt_files, g_pc, g_tasks, g_arg, g_requests, g_created, g_deleted>>
logs_vars ==
    <<log_file, l_written, l_pc, from_pos, file_size, l_new_pos, l_delivered>>
vars ==
    <<scrape_vars, main_vars, corr_vars, profile_vars, retry_vars, notify_vars, load_vars, key_vars, filename_vars, sched_vars, images_vars, reputation_vars, days_vars, extract_vars, once_vars, server_vars, config_vars,
      logs_vars>>

\* ------------------------------------------------------------------ links
\* The links a search response can hold: two links of one listing that differ
\* in the text after the first '&', and a link of another listing.
LinkA == <<"a">>
LinkAx == <<"a", "&", "x">>
LinkB == <<"b">>
Links == {LinkA, LinkAx, LinkB}

RECURSIVE find(_, _, _)
\* str.find from position i: the first position of c in s, 0 when there is none
find(s, c, i) ==
    IF i > Len(s) THEN 0
    ELSE IF s[i] = c THEN i
    ELSE find(s, c, i + 1)

\* The link is cut at its last '&'.
get_link_unique_key_rsplit(link) ==
    LET ps == {i \in 1..Len(link) : link[i] = "&"}
    IN IF ps = {} THEN link
       ELSE SubSeq(link, 1, (CHOOSE p \in ps : \A q \in ps : q <= p) - 1)

\* link.split('&', 1)[0]
get_link_unique_key(link) ==
    LET p == find(link, "&", 1)
    IN IF p = 0 THEN link ELSE SubSeq(link, 1, p - 1)

\* ----------------------------------------------------------- history file
NoLink == <<>>
\* A line of the history file.
\*   record     a record as save_to_jsonl writes it
\*   notjson    json.loads raises JSONDecodeError
\*   nolink     a JSON object without item_info.item_link (or an empty one)
\*   notobject  a JSON value without .get (a list, a number, null)
\* Of a record the line keeps item_info.item_link, the one field read back.
RecordLine(link) == [kind |-> "record", item_link |-> link]
NotJsonLine == [kind |-> "notjson", item_link |-> NoLink]
NoLinkLine == [kind |-> "nolink", item_link |-> NoLink]
NotObjectLine == [kind |-> "notobject", item_link |-> NoLink]

FileKeysUpTo(f, n) ==
    {get_link_unique_key(f[i].item_link) : i \in {j \in 1..n : f[j].kind = "record"}}
FileKeys(f) == FileKeysUpTo(f, Len(f))

NoDuplicateKey(f) ==
    \A i, j \in 1..Len(f) :
        (/\ i # j
         /\ f[i].kind = "record"
         /\ f[j].kind = "record")
        => get_link_unique_key(f[i].item_link) # get_link_unique_key(f[j].item_link)

\* ------------------------------------------------- scrape_xianyu: values
\* task_config and debug_limit as scrape_xianyu receives them.  personal_only,
\* min_price and max_price are read once each, by the filter steps, and are
\* drawn there.
\* max_pages is 1 (its default, line 664) or the largest value.
TaskConfigs ==
    [max_pages : {1, MaxPages}, ai_prompt_text : BOOLEAN, debug_limit : 0..MaxDebugLimit]
NoConfig == [max_pages |-> 1, ai_prompt_text |-> FALSE, debug_limit |-> 0]

NoResponse == [ok |-> FALSE, from |-> "none"]
Response(ok, from) == [ok |-> ok, from |-> from]

RECURSIVE SeqsUpTo(_, _)
SeqsUpTo(S, n) ==
    IF n = 0 THEN {<<>>}
    ELSE LET shorter == SeqsUpTo(S, n - 1)
         IN shorter \cup {Append(q, x) : q \in {r \in shorter : Len(r) = n - 1}, x \in S}

\* What _parse_search_results_json can return for one search response.
PageContents == SeqsUpTo(Links, MaxItems)

NoRecord == [item_link |-> NoLink, ai_analysis |-> "absent"]
NoResult == [kind |-> "none", count |-> 0]
Returned(n) == [kind |-> "returned", count |-> n]
Raised == [kind |-> "exception", count |-> 0]

\* The item the inner loop is at.
\* The loop takes the items from the end of the list.
item_data_last == basic_items[Len(basic_items)]

item_data == Head(basic_items)
unique_key == get_link_unique_key(item_data)

\* random.randint(a, b) is inclusive on both ends; the draws checked are the
\* two extremes.
randint(a, b) == {a, b}

\* A membership test on the link as listed instead of on its key.
already_processed_raw_link(key, links) == item_data \in links

\* line 815: unique_key in processed_links
already_processed(key, links) == key \in links

\* lines 675-689: the history load with the file read up to line n (n < Len(f):
\* an IOError ends the read there).  A line that decodes to something without
\* .get raises AttributeError, which neither handler catches.
history_load(f, n) ==
    IF \E i \in 1..n : f[i].kind = "notobject"
    THEN [raised |-> TRUE, links |-> {}]
    ELSE [raised |-> FALSE,
          links |-> {get_link_unique_key(f[i].item_link) :
                        i \in {j \in 1..n : f[j].kind = "record" /\ f[j].item_link # NoLink}}]

\* The per-run and per-item variables at their values at the start of a run.
RunReset ==
    /\ processed_item_count' = 0
    /\ stop_scraping' = FALSE
    /\ initial_response' = NoResponse
    /\ final_response' = NoResponse
    /\ current_response' = NoResponse
    /\ page_num' = 0
    /\ basic_items' = <<>>
    /\ detail_response' = NoResponse
    /\ ai_analysis_result' = "None"
    /\ final_record' = NoRecord
    /\ notification_sent' = FALSE
    /\ item_outcome' = "none"
    /\ why' = "none"
    /\ result' = NoResult
    /\ len0' = 0
    /\ cnt0' = 0
    /\ cooldowns' = 0
    /\ long_sleep_duration' = 0

ScrapeInit ==
    /\ file = <<>>
    /\ runs = 0
    /\ pc = "idle"
    /\ task_config = NoConfig
    /\ processed_links = {}
    /\ processed_item_count = 0
    /\ stop_scraping = FALSE
    /\ initial_response = NoResponse
    /\ final_response = NoResponse
    /\ current_response = NoResponse
    /\ page_num = 0
    /\ basic_items = <<>>
    /\ detail_response = NoResponse
    /\ ai_analysis_result = "None"
    /\ final_record = NoRecord
    /\ notification_sent = FALSE
    /\ item_outcome = "none"
    /\ why = "none"
    /\ result = NoResult
    /\ load_ok = TRUE
    /\ load_failed_ever = FALSE
    /\ hist_len = 0
    /\ len0 = 0
    /\ cnt0 = 0
    /\ cooldowns = 0
    /\ long_sleep_duration = 0

InRun == pc \notin {"idle", "done", "raised", "killed"}

\* ------------------------------------------------ scrape_xianyu: actions
\* lines 657-691: a call of scrape_xianyu for the task; the history load.
StartRun ==
    /\ pc \in {"idle", "done", "raised", "killed"}
    /\ runs < MaxRuns
    /\ runs' = runs + 1
    /\ \E cfg \in TaskConfigs, n \in 0..Len(file) :
         LET h == history_load(file, n)
         IN /\ task_config' = cfg
            /\ RunReset
            /\ hist_len' = Len(file)
            /\ load_ok' = (h.raised \/ n = Len(file))
            /\ load_failed_ever' = (load_failed_ever \/ ~(h.raised \/ n = Len(file)))
            /\ processed_links' = h.links
            /\ pc' = IF h.raised THEN "raised" ELSE "nav"
    /\ UNCHANGED file

\* lines 693-719: browser launch, navigation to the search page under the
\* first response wait, wait for the filter bar.
Navigate ==
    /\ pc = "nav"
    /\ \E o \in {"launch_error", "timeout", "error", "response"}, ok \in BOOLEAN :
         \/ /\ o = "launch_error"          \* lines 694-703 are outside the try
            /\ ok
            /\ pc' = "raised"
            /\ result' = Raised
            /\ UNCHANGED <<why, initial_response>>
         \/ /\ o \in {"timeout", "error"}  \* lines 931-934
            /\ ok
            /\ why' = IF o = "timeout" THEN "timeout_nav" ELSE "error"
            /\ pc' = "finally"
            /\ UNCHANGED <<result, initial_response>>
         \/ /\ o = "response"
            /\ initial_response' = Response(ok, "initial")
            /\ pc' = "baxia"
            /\ UNCHANGED <<why, result>>
    /\ UNCHANGED <<file, runs, task_config, processed_links, processed_item_count,
                   stop_scraping, final_response, current_response, page_num,
                   basic_items, detail_response, ai_analysis_result, final_record,
                   notification_sent, item_outcome, load_ok, load_failed_ever, hist_len,
                   len0, cnt0, cooldowns, long_sleep_duration>>

\* The overlay is reported and the task goes on to the filters.
BaxiaCheck_Continue ==
    /\ pc = "baxia"
    /\ \E visible \in BOOLEAN :
         /\ why' = IF visible THEN "baxia" ELSE why
         /\ pc' = "filter_sort"
    /\ UNCHANGED <<file, runs, task_config, processed_links, processed_item_count,
                   stop_scraping, initial_response, final_response, current_response,
                   page_num, basic_items, detail_response, ai_analysis_result,
                   final_record, notification_sent, item_outcome, result, load_ok,
                   load_failed_ever, hist_len, len0, cnt0, cooldowns,
                   long_sleep_duration>>

\* lines 721-739: the verification overlay (baxia-dialog) check.  When the
\* overlay shows, the browser is closed and the function returns from inside
\* the try, so the finally clause (lines 935-940) still runs.
BaxiaCheck ==
    /\ pc = "baxia"
    /\ \E visible \in BOOLEAN :
         IF visible
         THEN /\ why' = "baxia"
              /\ pc' = "finally"
         ELSE /\ pc' = "filter_sort"
              /\ UNCHANGED why
    /\ UNCHANGED <<file, runs, task_config, processed_links, processed_item_count,
                   stop_scraping, initial_response, final_response, current_response,
                   page_num, basic_items, detail_response, ai_analysis_result,
                   final_record, notification_sent, item_outcome, result, load_ok,
                   load_failed_ever, hist_len, len0, cnt0, cooldowns,
                   long_sleep_duration>>

\* The timeout of the sort filter is swallowed and the next filter is applied.
FilterSort_SwallowTimeout ==
    /\ pc = "filter_sort"
    /\ \E o \in {"response", "timeout"}, ok \in BOOLEAN :
         \/ /\ o = "response"
            /\ final_response' = Response(ok, "sort")
            /\ UNCHANGED why
         \/ /\ o = "timeout"
            /\ ok
            /\ why' = "timeout_filter"
            /\ UNCHANGED final_response
    /\ pc' = "filter_personal"
    /\ UNCHANGED <<file, runs, task_config, processed_links, processed_item_count,
                   stop_scraping, initial_response, current_response, page_num,
                   basic_items, detail_response, ai_analysis_result, final_record,
                   notification_sent, item_outcome, result, load_ok, load_failed_ever,
                   hist_len, len0, cnt0, cooldowns, long_sleep_duration>>

\* lines 741-754: the ad pop-up, then the sort-by-newest filter under a
\* response wait.  A wait that times out raises PlaywrightTimeoutError, which
\* only the handler of line 931 catches.
FilterSort ==
    /\ pc = "filter_sort"
    /\ \E o \in {"response", "timeout"}, ok \in BOOLEAN :
         \/ /\ o = "response"
            /\ final_response' = Response(ok, "sort")
            /\ pc' = "filter_personal"
            /\ UNCHANGED why
         \/ /\ o = "timeout"
            /\ ok
            /\ why' = "timeout_filter"
            /\ pc' = "finally"
            /\ UNCHANGED final_response
    /\ UNCHANGED <<file, runs, task_config, processed_links, processed_item_count,
                   stop_scraping, initial_response, current_response, page_num,
                   basic_items, detail_response, ai_analysis_result, final_record,
                   notification_sent, item_outcome, result, load_ok, load_failed_ever,
                   hist_len, len0, cnt0, cooldowns, long_sleep_duration>>

\* lines 756-760: the personal-seller filter, applied when personal_only is set.
FilterPersonal ==
    /\ pc = "filter_personal"
    /\ \E personal_only \in BOOLEAN, o \in {"response", "timeout"}, ok \in BOOLEAN :
         \/ /\ ~personal_only
            /\ o = "response" /\ ok
            /\ pc' = "filter_price"
            /\ UNCHANGED <<why, final_response>>
         \/ /\ personal_only
            /\ o = "response"
            /\ final_response' = Response(ok, "personal")
            /\ pc' = "filter_price"
            /\ UNCHANGED why
         \/ /\ personal_only
            /\ o = "timeout" /\ ok
            /\ why' = "timeout_filter"
            /\ pc' = "finally"
            /\ UNCHANGED final_response
    /\ UNCHANGED <<file, runs, task_config, processed_links, processed_item_count,
                   stop_scraping, initial_response, current_response, page_num,
                   basic_items, detail_response, ai_analysis_result, final_record,
                   notification_sent, item_outcome, result, load_ok, load_failed_ever,
                   hist_len, len0, cnt0, cooldowns, long_sleep_duration>>

\* line 781: final_response if final_response and final_response.ok else initial_response
choose_current_response(final, initial) ==
    IF final # NoResponse /\ final.ok THEN final ELSE initial

\* lines 762-781: the price filter, applied when a price bound is set and the
\* price inputs are visible; then the response the page loop starts from.
FilterPrice ==
    /\ pc = "filter_price"
    /\ \E price_set \in BOOLEAN, visible \in BOOLEAN,
          o \in {"response", "timeout"}, ok \in BOOLEAN :
         \/ /\ ~(price_set /\ visible)
            /\ o = "response" /\ ok
            /\ current_response' = choose_current_response(final_response, initial_response)
            /\ page_num' = 1
            /\ pc' = "page"
            /\ UNCHANGED why
         \/ /\ price_set /\ visible
            /\ o = "response"
            /\ current_response' =
                   choose_current_response(Response(ok, "price"), initial_response)
            /\ page_num' = 1
            /\ pc' = "page"
            /\ UNCHANGED why
         \/ /\ price_set /\ visible
            /\ o = "timeout" /\ ok
            /\ why' = "timeout_filter"
            /\ pc' = "finally"
            /\ UNCHANGED <<current_response, page_num>>
    \* initial_response and final_response are not read after line 781
    /\ initial_response' = NoResponse
    /\ final_response' = NoResponse
    /\ UNCHANGED <<file, runs, task_config, processed_links, processed_item_count,
                   stop_scraping, basic_items, detail_response, ai_analysis_result,
                   final_record, notification_sent, item_outcome, result, load_ok,
                   load_failed_ever, hist_len, len0, cnt0, cooldowns,
                   long_sleep_duration>>

\* A page that parses to no items is skipped and the next page requested.
PageStep_EmptyContinues ==
    /\ pc = "page"
    /\ IF page_num > task_config.max_pages
       THEN \* range(1, max_pages + 1) is exhausted
            /\ why' = IF why = "none" THEN "exhausted" ELSE why
            /\ pc' = "finally"
            /\ UNCHANGED <<current_response, page_num, basic_items>>
       ELSE IF stop_scraping
       THEN \* line 783
            /\ pc' = "finally"
            /\ UNCHANGED <<why, current_response, page_num, basic_items>>
       ELSE \E next \in {"absent", "timeout", "response"}, ok \in BOOLEAN,
               items \in PageContents :
            LET advance == page_num > 1
                resp == IF advance THEN Response(ok, "next") ELSE current_response
            IN \/ /\ advance /\ next = "absent"           \* lines 788-790
                  /\ ok /\ items = <<>>
                  /\ why' = "no_next"
                  /\ pc' = "finally"
                  /\ UNCHANGED <<current_response, page_num, basic_items>>
               \/ /\ advance /\ next = "timeout"          \* lines 796-798
                  /\ ok /\ items = <<>>
                  /\ why' = "timeout_page"
                  /\ pc' = "finally"
                  /\ UNCHANGED <<current_response, page_num, basic_items>>
               \/ /\ advance => next = "response"
                  /\ ~advance => (next = "response" /\ ok)
                  /\ IF ~resp.ok
                     THEN \* lines 800-802: continue
                          /\ items = <<>>
                          \* the next iteration replaces the response or breaks
                          /\ current_response' = NoResponse
                          /\ page_num' = page_num + 1
                          /\ pc' = "page"
                          /\ UNCHANGED <<why, basic_items>>
                     ELSE IF items = <<>>
                     THEN /\ why' = "empty"
                          /\ current_response' = NoResponse
                          /\ page_num' = page_num + 1
                          /\ pc' = "page"
                          /\ UNCHANGED basic_items
                     ELSE /\ basic_items' = items
                          /\ pc' = "item"
                          \* the response is not read again after the parse
                          /\ current_response' = NoResponse
                          /\ UNCHANGED <<why, page_num>>
    /\ UNCHANGED <<file, runs, task_config, processed_links, processed_item_count,
                   stop_scraping, initial_response, final_response, detail_response,
                   ai_analysis_result, final_record, notification_sent, item_outcome,
                   result, load_ok, load_failed_ever, hist_len, len0, cnt0, cooldowns,
                   long_sleep_duration>>

\* lines 782-805, one iteration of the page loop up to the parse: the loop
\* test, the stop_scraping test, the page advance under a response wait, the
\* response test and the parse.
PageStep ==
    /\ pc = "page"
    /\ IF page_num > task_config.max_pages
       THEN \* range(1, max_pages + 1) is exhausted
            /\ why' = IF why = "none" THEN "exhausted" ELSE why
            /\ pc' = "finally"
            /\ UNCHANGED <<current_response, page_num, basic_items>>
       ELSE IF stop_scraping
       THEN \* line 783
            /\ pc' = "finally"
            /\ UNCHANGED <<why, current_response, page_num, basic_items>>
       ELSE \E next \in {"absent", "timeout", "response"}, ok \in BOOLEAN,
               items \in PageContents :
            LET advance == page_num > 1
                resp == IF advance THEN Response(ok, "next") ELSE current_response
            IN \/ /\ advance /\ next = "absent"           \* lines 788-790
                  /\ ok /\ items = <<>>
                  /\ why' = "no_next"
                  /\ pc' = "finally"
                  /\ UNCHANGED <<current_response, page_num, basic_items>>
               \/ /\ advance /\ next = "timeout"          \* lines 796-798
                  /\ ok /\ items = <<>>
                  /\ why' = "timeout_page"
                  /\ pc' = "finally"
                  /\ UNCHANGED <<current_response, page_num, basic_items>>
               \/ /\ advance => next = "response"
                  /\ ~advance => (next = "response" /\ ok)
                  /\ IF ~resp.ok
                     THEN \* lines 800-802: continue
                          /\ items = <<>>
                          \* the next iteration replaces the response or breaks
                          /\ current_response' = NoResponse
                          /\ page_num' = page_num + 1
                          /\ pc' = "page"
                          /\ UNCHANGED <<why, basic_items>>
                     ELSE IF items = <<>>
                     THEN \* line 805
                          /\ why' = "empty"
                          /\ pc' = "finally"
                          /\ current_response' = NoResponse
                          /\ UNCHANGED <<page_num, basic_items>>
                     ELSE /\ basic_items' = items
                          /\ pc' = "item"
                          \* the response is not read again after the parse
                          /\ current_response' = NoResponse
                          /\ UNCHANGED <<why, page_num>>
    /\ UNCHANGED <<file, runs, task_config, processed_links, processed_item_count,
                   stop_scraping, initial_response, final_response, detail_response,
                   ai_analysis_result, final_record, notification_sent, item_outcome,
                   result, load_ok, load_failed_ever, hist_len, len0, cnt0, cooldowns,
                   long_sleep_duration>>

\* The limit test counts one item too many.
debug_limit_off_by_one(debug_limit, count) == debug_limit > 0 /\ count > debug_limit

\* line 809: debug_limit > 0 and processed_item_count >= debug_limit
debug_limit_reached(debug_limit, count) == debug_limit > 0 /\ count >= debug_limit

\* The limit branch leaves the item loop without setting stop_scraping.
ItemCheck_BreakOnly ==
    /\ pc = "item"
    /\ basic_items # <<>>
    /\ IF debug_limit_reached(task_config.debug_limit, processed_item_count)
       THEN \* lines 809-812: break, then line 927 and the next turn of the page loop
            /\ UNCHANGED stop_scraping
            /\ why' = "limit"
            /\ basic_items' = <<>>
            /\ page_num' = page_num + 1
            /\ pc' = "page"
            /\ item_outcome' = "none"
            /\ UNCHANGED <<len0, cnt0>>
       ELSE IF already_processed(unique_key, processed_links)
       THEN \* lines 815-817: continue
            /\ basic_items' = Tail(basic_items)
            /\ item_outcome' = "duplicate"
            /\ UNCHANGED <<stop_scraping, why, page_num, pc, len0, cnt0>>
       ELSE /\ pc' = "detail"
            /\ len0' = Len(file)
            /\ cnt0' = processed_item_count
            /\ item_outcome' = "none"
            /\ UNCHANGED <<stop_scraping, why, page_num, basic_items>>
    /\ UNCHANGED <<file, runs, task_config, processed_links, processed_item_count,
                   initial_response, final_response, current_response, detail_response,
                   ai_analysis_result, final_record, notification_sent, result, load_ok,
                   load_failed_ever, hist_len, cooldowns, long_sleep_duration>>

\* lines 808-820, the head of one iteration of the item loop: the debug limit,
\* the dedup membership test, the delay before the detail fetch.
ItemCheck ==
    /\ pc = "item"
    /\ basic_items # <<>>
    /\ IF debug_limit_reached(task_config.debug_limit, processed_item_count)
       THEN \* lines 809-812: break, then line 927 and the next turn of the page loop
            /\ stop_scraping' = TRUE
            /\ why' = "limit"
            /\ basic_items' = <<>>
            /\ page_num' = page_num + 1
            /\ pc' = "page"
            /\ item_outcome' = "none"
            /\ UNCHANGED <<len0, cnt0>>
       ELSE IF already_processed(unique_key, processed_links)
       THEN \* lines 815-817: continue
            /\ basic_items' = Tail(basic_items)
            /\ item_outcome' = "duplicate"
            /\ UNCHANGED <<stop_scraping, why, page_num, pc, len0, cnt0>>
       ELSE /\ pc' = "detail"
            /\ len0' = Len(file)
            /\ cnt0' = processed_item_count
            /\ item_outcome' = "none"
            /\ UNCHANGED <<stop_scraping, why, page_num, basic_items>>
    /\ UNCHANGED <<file, runs, task_config, processed_links, processed_item_count,
                   initial_response, final_response, current_response, detail_response,
                   ai_analysis_result, final_record, notification_sent, result, load_ok,
                   load_failed_ever, hist_len, cooldowns, long_sleep_duration>>

\* lines 808 and 927-929: the item loop is exhausted; the delay between pages.
PageEnd ==
    /\ pc = "item"
    /\ basic_items = <<>>
    /\ page_num' = page_num + 1
    /\ pc' = "page"
    /\ item_outcome' = "none"
    /\ UNCHANGED <<file, runs, task_config, processed_links, processed_item_count,
                   stop_scraping, initial_response, final_response, current_response,
                   basic_items, detail_response, ai_analysis_result, final_record,
                   notification_sent, why, result, load_ok, load_failed_ever, hist_len,
                   len0, cnt0, cooldowns, long_sleep_duration>>

\* lines 822-828 and 909-922: the detail page is opened and its API response
\* awaited.  context.new_page() of line 822 is outside the item's try.
DetailFetch ==
    /\ pc = "detail"
    /\ \E o \in {"new_page_error", "timeout", "error", "response"}, ok \in BOOLEAN :
         \/ /\ o = "new_page_error" /\ ok            \* caught at line 933
            /\ why' = "error"
            /\ pc' = "finally"
            /\ UNCHANGED <<detail_response, item_outcome>>
         \/ /\ o \in {"timeout", "error"} /\ ok      \* lines 919-922
            /\ item_outcome' = IF o = "timeout" THEN "timeout" ELSE "raised_detail"
            /\ pc' = "item_finally"
            /\ UNCHANGED <<detail_response, why>>
         \/ /\ o = "response"
            /\ detail_response' = Response(ok, "detail")
            /\ IF ok
               THEN /\ pc' = "detail_json"
                    /\ UNCHANGED item_outcome
               ELSE /\ item_outcome' = "not_ok"      \* lines 909-917
                    /\ pc' = "item_finally"
            /\ UNCHANGED why
    /\ UNCHANGED <<file, runs, task_config, processed_links, processed_item_count,
                   stop_scraping, initial_response, final_response, current_response,
                   page_num, basic_items, ai_analysis_result, final_record,
                   notification_sent, result, load_ok, load_failed_ever, hist_len, len0,
                   cnt0, cooldowns, long_sleep_duration>>

\* lines 829-876: the detail payload is decoded and tested for the block
\* signature; otherwise the item is completed from it, the seller profile is
\* scraped and the record assembled.
\*   undecodable  detail_response.json() raises
\*   block        'ret' holds FAIL_SYS_USER_VALIDATE
\*   malformed    the assembly raises (an imageInfos entry without .get)
\*   normal
\* scrape_user_profile returns its (possibly partial) data, or raises when
\* context.new_page() of line 176 does.
DetailProcess ==
    /\ pc = "detail_json"
    /\ \E body \in {"undecodable", "block", "malformed", "normal"},
          profile \in {"returned", "raised"},
          d \in randint(COOLDOWN_MIN, COOLDOWN_MAX) :
         \/ /\ body \in {"undecodable", "malformed"}
            /\ profile = "returned" /\ d = COOLDOWN_MIN
            /\ item_outcome' = "raised_detail"       \* lines 921-922
            /\ pc' = "item_finally"
            /\ UNCHANGED <<stop_scraping, why, cooldowns, long_sleep_duration, final_record>>
         \/ /\ body = "block"                        \* lines 832-841
            /\ profile = "returned"
            /\ long_sleep_duration' = d
            /\ cooldowns' = cooldowns + 1
            /\ stop_scraping' = TRUE
            /\ why' = "block"
            /\ item_outcome' = "block"
            /\ pc' = "item_finally"
            /\ UNCHANGED final_record
         \/ /\ body = "normal"
            /\ d = COOLDOWN_MIN
            /\ IF profile = "raised"
               THEN /\ item_outcome' = "raised_detail"
                    /\ pc' = "item_finally"
                    /\ UNCHANGED final_record
               ELSE /\ final_record' = [item_link |-> item_data, ai_analysis |-> "absent"]
                    /\ pc' = "analyse"
                    /\ UNCHANGED item_outcome
            /\ UNCHANGED <<stop_scraping, why, cooldowns, long_sleep_duration>>
    /\ UNCHANGED <<file, runs, task_config, processed_links, processed_item_count,
                   initial_response, final_response, current_response, page_num,
                   basic_items, detail_response, ai_analysis_result, notification_sent,
                   result, load_ok, load_failed_ever, hist_len, len0, cnt0>>

\* An item whose analysis failed is dropped instead of persisted.
after_analysis_drop_failed(ai) == IF ai = "None" THEN "item_finally" ELSE "notify"

\* lines 882-897: whatever the analysis gave (a verdict, None after the
\* retries, an exception caught at line 891, or no analysis at all), control
\* reaches the notification test and the save.
after_analysis(ai) == "notify"

\* lines 878-895: the images are downloaded and the analysis is called when a
\* prompt is configured.  get_ai_analysis is wrapped by retry_on_failure, so a
\* call that fails on every attempt returns None.
\*   None             every attempt raised, or the verdict is empty
\*   recommended      a verdict object with is_recommended true
\*   not_recommended  a verdict object with is_recommended false or absent
\*   not_object       a JSON value that is not an object (line 649): line 888
\*                    raises AttributeError, caught at line 891
Analyse ==
    /\ pc = "analyse"
    /\ \E images \in {"returned", "raised"},
          ai \in {"None", "recommended", "not_recommended", "not_object"} :
         IF images = "raised"
         THEN \* download_all_images, line 467, is outside its try
              /\ ai = "None"
              /\ item_outcome' = "raised_images"
              /\ pc' = "item_finally"
              /\ UNCHANGED <<ai_analysis_result, final_record>>
         ELSE /\ IF task_config.ai_prompt_text
                 THEN /\ ai_analysis_result' = ai
                      /\ final_record' =
                           [final_record EXCEPT !.ai_analysis =
                               IF ai \in {"recommended", "not_recommended"}
                               THEN "verdict" ELSE "error"]
                 ELSE /\ ai = "None"
                      /\ ai_analysis_result' = "None"
                      /\ UNCHANGED final_record
              /\ pc' = after_analysis(IF task_config.ai_prompt_text THEN ai ELSE "skipped")
              /\ UNCHANGED item_outcome
    /\ UNCHANGED <<file, runs, task_config, processed_links, processed_item_count,
                   stop_scraping, initial_response, final_response, current_response,
                   page_num, basic_items, detail_response, notification_sent, why,
                   result, load_ok, load_failed_ever, hist_len, len0, cnt0, cooldowns,
                   long_sleep_duration>>

\* The test of is_recommended is missing: every verdict notifies.
should_notify_any_verdict(ai) == ai \in {"recommended", "not_recommended"}

\* line 897: ai_analysis_result and ai_analysis_result.get('is_recommended'),
\* for a result that is None or a verdict object.
should_notify(ai) == ai = "recommended"

\* lines 897-899: the notification.  send_ntfy_notification is wrapped by
\* retry_on_failure and raises nothing; .get on a result that is not an
\* object raises AttributeError outside the try of line 884.
Notify ==
    /\ pc = "notify"
    /\ IF ai_analysis_result = "not_object"
       THEN /\ item_outcome' = "raised_verdict"
            /\ pc' = "item_finally"
            /\ UNCHANGED notification_sent
       ELSE /\ notification_sent' = should_notify(ai_analysis_result)
            /\ pc' = "save"
            /\ UNCHANGED item_outcome
    /\ UNCHANGED <<file, runs, task_config, processed_links, processed_item_count,
                   stop_scraping, initial_response, final_response, current_response,
                   page_num, basic_items, detail_response, ai_analysis_result,
                   final_record, why, result, load_ok, load_failed_ever, hist_len, len0,
                   cnt0, cooldowns, long_sleep_duration>>

\* The key is not inserted into the dedup set.
SaveItem_NoInsert ==
    /\ pc = "save"
    /\ \E o \in {"written", "io_error", "raised"} :
         /\ file' = IF o = "written" THEN Append(file, RecordLine(final_record.item_link))
                    ELSE file
         /\ IF o = "raised"
            THEN /\ item_outcome' = "raised_save"
                 /\ UNCHANGED processed_item_count
            ELSE /\ processed_item_count' = processed_item_count + 1
                 /\ item_outcome' = IF o = "written" THEN "saved" ELSE "save_failed"
    /\ pc' = "item_finally"
    /\ UNCHANGED <<runs, task_config, processed_links, stop_scraping, initial_response,
                   final_response, current_response, page_num, basic_items,
                   detail_response, ai_analysis_result, final_record, notification_sent,
                   why, result, load_ok, load_failed_ever, hist_len, len0, cnt0,
                   cooldowns, long_sleep_duration>>

\* lines 101-112 and 901-908: save_to_jsonl appends the record (written), or
\* catches an IOError and returns False (io_error), or raises when
\* os.makedirs of line 104, outside its try, does (raised).  Its result is not
\* read: the key is inserted and the item counted after either return.
SaveItem ==
    /\ pc = "save"
    /\ \E o \in {"written", "io_error", "raised"} :
         /\ file' = IF o = "written" THEN Append(file, RecordLine(final_record.item_link))
                    ELSE file
         /\ IF o = "raised"
            THEN /\ item_outcome' = "raised_save"
                 /\ UNCHANGED <<processed_links, processed_item_count>>
            ELSE /\ processed_links' = processed_links \cup {unique_key}
                 /\ processed_item_count' = processed_item_count + 1
                 /\ item_outcome' = IF o = "written" THEN "saved" ELSE "save_failed"
    /\ pc' = "item_finally"
    /\ UNCHANGED <<runs, task_config, stop_scraping, initial_response, final_response,
                   current_response, page_num, basic_items, detail_response,
                   ai_analysis_result, final_record, notification_sent, why, result,
                   load_ok, load_failed_ever, hist_len, len0, cnt0, cooldowns,
                   long_sleep_duration>>

ItemReset ==
    /\ detail_response' = NoResponse
    /\ ai_analysis_result' = "None"
    /\ final_record' = NoRecord
    /\ notification_sent' = FALSE
    /\ item_outcome' = "none"
    /\ long_sleep_duration' = 0

\* The break of line 841 is missing: after the block signature the item loop
\* goes on.
ItemFinally_NoBreak ==
    /\ pc = "item_finally"
    /\ basic_items' = Tail(basic_items)
    /\ pc' = "item"
    /\ ItemReset
    /\ UNCHANGED <<file, runs, task_config, processed_links, processed_item_count,
                   stop_scraping, initial_response, final_response, current_response,
                   page_num, why, result, load_ok, load_failed_ever, hist_len, len0,
                   cnt0, cooldowns>>

\* An exception of the item reaches the handler of line 933: the task ends.
ItemFinally_FailureEndsTask ==
    /\ pc = "item_finally"
    /\ IF item_outcome = "block"
       THEN /\ basic_items' = <<>>
            /\ page_num' = page_num + 1
            /\ pc' = "page"
       ELSE IF item_outcome \in {"saved", "save_failed"}
       THEN /\ basic_items' = Tail(basic_items)
            /\ pc' = "item"
            /\ UNCHANGED page_num
       ELSE /\ basic_items' = <<>>
            /\ pc' = "finally"
            /\ UNCHANGED page_num
    /\ ItemReset
    /\ UNCHANGED <<file, runs, task_config, processed_links, processed_item_count,
                   stop_scraping, initial_response, final_response, current_response,
                   why, result, load_ok, load_failed_ever, hist_len, len0, cnt0,
                   cooldowns>>

\* lines 923-925, then the next turn of the item loop; after the break of line
\* 841, line 927 and the next turn of the page loop.
ItemFinally ==
    /\ pc = "item_finally"
    /\ IF item_outcome = "block"
       THEN /\ basic_items' = <<>>
            /\ page_num' = page_num + 1
            /\ pc' = "page"
       ELSE /\ basic_items' = Tail(basic_items)
            /\ pc' = "item"
            /\ UNCHANGED page_num
    /\ ItemReset
    /\ UNCHANGED <<file, runs, task_config, processed_links, processed_item_count,
                   stop_scraping, initial_response, final_response, current_response,
                   why, result, load_ok, load_failed_ever, hist_len, len0, cnt0,
                   cooldowns>>

\* lines 931-942: the task ends: the 5 second delay, input() when debug_limit
\* is set, browser.close(), return processed_item_count.
Finally ==
    /\ pc = "finally"
    /\ result' = Returned(processed_item_count)
    /\ pc' = "done"
    \* the locals of the call end with it
    /\ processed_links' = {}
    /\ stop_scraping' = FALSE
    /\ current_response' = NoResponse
    /\ initial_response' = NoResponse
    /\ final_response' = NoResponse
    /\ page_num' = 0
    /\ basic_items' = <<>>
    /\ UNCHANGED <<file, runs, task_config, processed_item_count, detail_response,
                   ai_analysis_result, final_record, notification_sent, item_outcome,
                   why, load_ok, load_failed_ever, hist_len, len0, cnt0, cooldowns,
                   long_sleep_duration>>

\* The scraper process is terminated while the task runs (stop-all of the web
\* server sends SIGTERM to its process group): the memory is lost, the
\* history file stays.
Interrupt ==
    /\ InRun
    /\ pc' = "killed"
    /\ task_config' = NoConfig
    /\ processed_links' = {}
    /\ RunReset
    /\ UNCHANGED <<file, runs, load_ok, load_failed_ever, hist_len>>

\* ---------------------------------------------------------------- main()
\* An entry of the configuration file, as far as main() reads it.
TaskEntries == [enabled : BOOLEAN, ai_prompt_file : BOOLEAN]

\* The attributes of an argparse.ArgumentParser that take part in parsing.
ArgumentParserAttributes ==
    {"add_argument", "parse_args", "parse_known_args", "parse_intermixed_args"}

\* Attribute lookup on the parser: AttributeError for a name it does not have.
has_attribute(name) == name \in ArgumentParserAttributes

active_task_configs ==
    {i \in 1..Len(tasks_config) : tasks_config[i].enabled}

MainIdle ==
    /\ m_pc = "off"
    /\ args = 0
    /\ tasks_config = <<>>
    /\ coroutines = <<>>
    /\ results = <<>>

\* The process is started: any command line, any configuration file.
MainInit ==
    /\ m_pc = "build_parser"
    /\ args \in 0..MaxDebugLimit
    /\ tasks_config \in SeqsUpTo(TaskEntries, MaxTasks)
    /\ coroutines = <<>>
    /\ results = <<>>

\* lines 945-958: the parser and its two options.
MainBuildParser ==
    /\ m_pc = "build_parser"
    /\ m_pc' = "parse_args"
    /\ UNCHANGED <<args, tasks_config, coroutines, results>>

\* line 959: args = parser.parse_.parse_args().  The lookup of parse_ on the
\* parser raises AttributeError, which leaves main() and asyncio.run(): no
\* statement after line 959 runs.
MainParseArgs ==
    /\ m_pc = "parse_args"
    /\ m_pc' = IF has_attribute("parse_") THEN "check_files" ELSE "raised"
    /\ UNCHANGED <<args, tasks_config, coroutines, results>>

\* ------------------------------------------------- the response waits
\* The filters a task configuration asks for, and its max_pages.
CorrConfigs ==
    [personal_only : BOOLEAN, min_price : BOOLEAN, max_price : BOOLEAN,
     max_pages : {1, MaxPages}]

UiStep(name, wrapped) == [name |-> name, wrapped |-> wrapped]

RECURSIVE next_steps(_)
next_steps(n) ==
    IF n = 0 THEN <<>> ELSE <<UiStep("next", TRUE)>> \o next_steps(n - 1)

\* lines 746-775 and 786-795: the UI actions of a task on its search page, in
\* program order, each with whether it runs inside a page.expect_response.
ui_steps(cfg) ==
    <<UiStep("open_sort", FALSE), UiStep("sort", TRUE)>>
    \o (IF cfg.personal_only THEN <<UiStep("personal", TRUE)>> ELSE <<>>)
    \o (IF cfg.min_price THEN <<UiStep("fill_min", FALSE)>> ELSE <<>>)
    \o (IF cfg.max_price THEN <<UiStep("fill_max", FALSE)>> ELSE <<>>)
    \o (IF cfg.min_price \/ cfg.max_price THEN <<UiStep("price_tab", TRUE)>> ELSE <<>>)
    \o next_steps(cfg.max_pages - 1)

\* The wait is registered after the action instead of around it.
wait_phases_act_first == <<"act", "register", "await">>

\* lines 749-752 (and 755-758, 770-773, 791-794): the wait is registered when
\* the async-with block is entered, the action runs inside the block, and the
\* response is awaited when the block is left.
wait_phases == <<"register", "act", "await">>

steps == ui_steps(c_config)
step == steps[c_step]
phase == wait_phases[c_phase]

NoWaiter == [state |-> "off", cause |-> 0, during |-> "none"]
Armed == [state |-> "armed", cause |-> 0, during |-> "none"]
\* cause: the step that provoked the response; during: where the task was
\* when the response was delivered (history)
Resolved(cause) == [state |-> "resolved", cause |-> cause, during |-> phase]

NoSearchResponse == [wait |-> 0, cause |-> 0]

\* The matching responses the site answers one UI action with: any number
\* (as long as no more than MaxInFlight are in flight), each tagged with the
\* action that provoked it.
Provoked(k) == IF k = 0 THEN EmptyBag ELSE [c \in {c_step} |-> k]

\* The wrapped action of the current step has started and its wait has not
\* resolved.
awaiting_response ==
    /\ c_step <= Len(steps)
    /\ step.wrapped
    /\ \E i \in 1..(c_phase - 1) : wait_phases[i] = "act"
    /\ waiter.state # "resolved"

CorrIdle ==
    /\ c_pc = "off"
    /\ c_config = [personal_only |-> FALSE, min_price |-> FALSE, max_price |-> FALSE,
                   max_pages |-> 1]
    /\ c_step = 1
    /\ c_phase = 1
    /\ inflight = EmptyBag
    /\ waiter = NoWaiter
    /\ c_response = NoSearchResponse
    /\ c_consumed = 0
    /\ c_missed = FALSE

\* The search page is loaded and the filter bar is there (line 716).
CorrInit ==
    /\ c_pc = "run"
    /\ c_config \in CorrConfigs
    /\ c_step = 1
    /\ c_phase = 1
    /\ inflight = EmptyBag
    /\ waiter = NoWaiter
    /\ c_response = NoSearchResponse
    /\ c_consumed = 0
    /\ c_missed = FALSE

\* lines 747, 764, 767: a click or fill outside any wait.
UnwrappedAct ==
    /\ c_pc = "run"
    /\ c_step <= Len(steps)
    /\ ~step.wrapped
    /\ \E k \in 0..(MaxInFlight - BagCardinality(inflight)) :
         inflight' = inflight (+) Provoked(k)
    /\ c_step' = c_step + 1
    /\ UNCHANGED <<c_pc, c_config, c_phase, waiter, c_response, c_consumed, c_missed>>

\* lines 749, 755, 770, 791: page.expect_response(...) is entered.
Register ==
    /\ c_pc = "run"
    /\ c_step <= Len(steps)
    /\ step.wrapped
    /\ phase = "register"
    /\ waiter' = Armed
    /\ c_phase' = c_phase + 1
    /\ UNCHANGED <<c_pc, c_config, c_step, inflight, c_response, c_consumed, c_missed>>

\* lines 750, 756, 771, 792: the click or key press inside the wait.
WrappedAct ==
    /\ c_pc = "run"
    /\ c_step <= Len(steps)
    /\ step.wrapped
    /\ phase = "act"
    /\ \E k \in 0..(MaxInFlight - BagCardinality(inflight)) :
         inflight' = inflight (+) Provoked(k)
    /\ c_phase' = c_phase + 1
    /\ UNCHANGED <<c_pc, c_config, c_step, waiter, c_response, c_consumed, c_missed>>

\* lines 752, 758, 773, 794: response_info.value gives the response the wait
\* resolved with.
Await ==
    /\ c_pc = "run"
    /\ c_step <= Len(steps)
    /\ step.wrapped
    /\ phase = "await"
    /\ waiter.state = "resolved"
    /\ c_response' = [wait |-> c_step, cause |-> waiter.cause]
    /\ waiter' = NoWaiter
    /\ c_step' = c_step + 1
    /\ c_phase' = 1
    /\ UNCHANGED <<c_pc, c_config, inflight, c_consumed, c_missed>>

\* The 20 seconds of the wait pass without a matching response:
\* PlaywrightTimeoutError, caught at line 931 (filters) or 796 (page advance).
WaitTimeout ==
    /\ c_pc = "run"
    /\ c_step <= Len(steps)
    /\ step.wrapped
    /\ phase = "await"
    /\ waiter.state = "armed"
    /\ c_pc' = "timed_out"
    /\ waiter' = NoWaiter
    /\ UNCHANGED <<c_config, c_step, c_phase, inflight, c_response, c_consumed, c_missed>>

\* A matching response reaches the page: the predicate of the wait
\* (API_URL_PATTERN in r.url) holds of it whatever provoked it, so a pending
\* wait resolves with it; with no pending wait it is delivered to nobody.
Deliver ==
    /\ c_pc = "run"
    /\ \E cause \in BagToSet(inflight) :
         /\ inflight' = inflight (-) SetToBag({cause})
         /\ IF waiter.state = "armed"
            THEN /\ waiter' = Resolved(cause)
                 /\ c_consumed' = c_consumed + 1
                 /\ UNCHANGED c_missed
            ELSE /\ c_missed' = (c_missed \/ awaiting_response)
                 /\ UNCHANGED <<waiter, c_consumed>>
    /\ UNCHANGED <<c_pc, c_config, c_step, c_phase, c_response>>

\* ------------------------------------------------- scrape_user_profile
NoProfile == [head |-> FALSE, items |-> -1, ratings |-> -1]
\* line 861 has not run yet: a value no profile takes.
NoSellerInfo == [head |-> FALSE, items |-> -2, ratings |-> -2]

ProfileIdle ==
    /\ p_pc = "off"
    /\ page_open = FALSE
    /\ listener_on = FALSE
    /\ head_api_future = "pending"
    /\ head_from = 0
    /\ head_arrived = 0
    /\ head_handlers = {}
    /\ all_items = 0
    /\ stop_item_scrolling = FALSE
    /\ all_ratings = 0
    /\ stop_rating_scrolling = FALSE
    /\ profile_data = NoProfile
    /\ seller_info = NoSellerInfo
    /\ p_exception = FALSE
    /\ p_failed_at = "none"
    /\ item_scrolls = 0
    /\ rating_scrolls = 0
    /\ listener_raised = FALSE

\* line 175: the call has started, profile_data = {}.
ProfileInit ==
    /\ p_pc = "new_page"
    /\ page_open = FALSE
    /\ listener_on = FALSE
    /\ head_api_future = "pending"
    /\ head_from = 0
    /\ head_arrived = 0
    /\ head_handlers = {}
    /\ all_items = 0
    /\ stop_item_scrolling = FALSE
    /\ all_ratings = 0
    /\ stop_rating_scrolling = FALSE
    /\ profile_data = NoProfile
    /\ seller_info = NoSellerInfo
    /\ p_exception = FALSE
    /\ p_failed_at = "none"
    /\ item_scrolls = 0
    /\ rating_scrolls = 0
    /\ listener_raised = FALSE

\* The handler of line 256 is missing: the exception leaves the function
\* after the finally clause.
except_catches_nothing == FALSE

\* line 256: except Exception catches whatever the try block raised.
except_catches == TRUE

\* The clean-up is written at the end of the try block, not in a finally
\* clause: an exception skips it.
on_exception_return == "after_finally"

\* lines 256-259: an exception of the try block is printed, then the finally
\* clause runs.
on_exception == "finally"

\* The statement at stage `at` raised.
ProfileFail(at) ==
    /\ p_exception' = TRUE
    /\ p_failed_at' = at
    /\ p_pc' = on_exception

\* lines 176-215: the page is opened, the future, the lists and the events
\* are made, the listener is registered.  context.new_page() is outside the
\* try block: its exception leaves the function.
ProfileOpen ==
    /\ p_pc = "new_page"
    /\ \E ok \in BOOLEAN :
         IF ok
         THEN /\ page_open' = TRUE
              /\ listener_on' = TRUE
              /\ p_pc' = "goto"
         ELSE /\ p_pc' = "raised"
              /\ UNCHANGED <<page_open, listener_on>>
    /\ UNCHANGED <<head_api_future, head_from, head_arrived, head_handlers, all_items,
                   stop_item_scrolling, all_ratings, stop_rating_scrolling,
                   profile_data, seller_info, p_exception, p_failed_at, item_scrolls,
                   rating_scrolls, listener_raised>>

\* line 219: page.goto.
ProfileGoto ==
    /\ p_pc = "goto"
    /\ \E ok \in BOOLEAN :
         IF ok
         THEN /\ p_pc' = "head_wait"
              /\ UNCHANGED <<p_exception, p_failed_at>>
         ELSE ProfileFail("goto")
    /\ UNCHANGED <<page_open, listener_on, head_api_future, head_from, head_arrived,
                   head_handlers, all_items, stop_item_scrolling, all_ratings,
                   stop_rating_scrolling, profile_data, seller_info, item_scrolls,
                   rating_scrolls, listener_raised>>

\* lines 220-221: asyncio.wait_for(head_api_future, timeout=15), then
\* parse_user_head_data.  The timeout cancels the future.
ProfileHeadWait ==
    /\ p_pc = "head_wait"
    /\ \/ /\ head_api_future = "result"
          /\ \E parsed \in BOOLEAN :
               IF parsed
               THEN /\ profile_data' = [profile_data EXCEPT !.head = TRUE]
                    /\ p_pc' = "item_loop"
                    /\ UNCHANGED <<p_exception, p_failed_at>>
               ELSE /\ ProfileFail("head")
                    /\ UNCHANGED profile_data
          /\ UNCHANGED head_api_future
       \/ /\ head_api_future = "exception"
          /\ ProfileFail("head")
          /\ UNCHANGED <<head_api_future, profile_data>>
       \/ /\ head_api_future = "pending"
          /\ head_api_future' = "cancelled"
          /\ ProfileFail("head")
          /\ UNCHANGED profile_data
    /\ UNCHANGED <<page_open, listener_on, head_from, head_arrived, head_handlers,
                   all_items, stop_item_scrolling, all_ratings, stop_rating_scrolling,
                   seller_info, item_scrolls, rating_scrolls, listener_raised>>

\* The loop scrolls again after a timeout.
after_scroll_timeout_continue(loop_stage, exit_stage) == loop_stage

\* lines 231-233 and 247-249: asyncio.TimeoutError of the wait is caught and
\* the loop left with break.
after_scroll_timeout(loop_stage, exit_stage) == exit_stage

\* lines 227-228: the loop test of the item scroll loop and the scroll.
ItemScroll ==
    /\ p_pc = "item_loop"
    /\ IF stop_item_scrolling
       THEN /\ p_pc' = "items_parse"
            /\ UNCHANGED <<item_scrolls, p_exception, p_failed_at>>
       ELSE \E ok \in BOOLEAN :
              IF ok
              THEN /\ item_scrolls' = IF item_scrolls < MaxScrolls
                                      THEN item_scrolls + 1 ELSE item_scrolls
                   /\ p_pc' = "item_wait"
                   /\ UNCHANGED <<p_exception, p_failed_at>>
              ELSE /\ ProfileFail("item_scroll")
                   /\ UNCHANGED item_scrolls
    /\ UNCHANGED <<page_open, listener_on, head_api_future, head_from, head_arrived,
                   head_handlers, all_items, stop_item_scrolling, all_ratings,
                   stop_rating_scrolling, profile_data, seller_info, rating_scrolls,
                   listener_raised>>

\* lines 229-233: wait up to 8 seconds for stop_item_scrolling.
ItemWait ==
    /\ p_pc = "item_wait"
    /\ p_pc' = IF stop_item_scrolling
               THEN "item_loop"
               ELSE after_scroll_timeout("item_loop", "items_parse")
    /\ UNCHANGED <<page_open, listener_on, head_api_future, head_from, head_arrived,
                   head_handlers, all_items, stop_item_scrolling, all_ratings,
                   stop_rating_scrolling, profile_data, seller_info, p_exception,
                   p_failed_at, item_scrolls, rating_scrolls, listener_raised>>

\* line 234: _parse_user_items_data(all_items).
ItemsParse ==
    /\ p_pc = "items_parse"
    /\ \E ok \in BOOLEAN :
         IF ok
         THEN /\ profile_data' = [profile_data EXCEPT !.items = all_items]
              /\ p_pc' = "rating_tab"
              /\ UNCHANGED <<p_exception, p_failed_at>>
         ELSE /\ ProfileFail("items_parse")
              /\ UNCHANGED profile_data
    /\ UNCHANGED <<page_open, listener_on, head_api_future, head_from, head_arrived,
                   head_handlers, all_items, stop_item_scrolling, all_ratings,
                   stop_rating_scrolling, seller_info, item_scrolls, rating_scrolls,
                   listener_raised>>

\* lines 238-241 and 255: the rating tab is located and clicked; without the
\* tab the rating collection is skipped.
RatingTab ==
    /\ p_pc = "rating_tab"
    /\ \E o \in {"found", "absent", "raised"} :
         CASE o = "found" -> /\ p_pc' = "rating_loop"
                             /\ UNCHANGED <<p_exception, p_failed_at>>
           [] o = "absent" -> /\ p_pc' = "finally"
                              /\ UNCHANGED <<p_exception, p_failed_at>>
           [] o = "raised" -> ProfileFail("rating_tab")
    /\ UNCHANGED <<page_open, listener_on, head_api_future, head_from, head_arrived,
                   head_handlers, all_items, stop_item_scrolling, all_ratings,
                   stop_rating_scrolling, profile_data, seller_info, item_scrolls,
                   rating_scrolls, listener_raised>>

\* lines 243-244: the loop test of the rating scroll loop and the scroll.
RatingScroll ==
    /\ p_pc = "rating_loop"
    /\ IF stop_rating_scrolling
       THEN /\ p_pc' = "ratings_parse"
            /\ UNCHANGED <<rating_scrolls, p_exception, p_failed_at>>
       ELSE \E ok \in BOOLEAN :
              IF ok
              THEN /\ rating_scrolls' = IF rating_scrolls < MaxScrolls
                                        THEN rating_scrolls + 1 ELSE rating_scrolls
                   /\ p_pc' = "rating_wait"
                   /\ UNCHANGED <<p_exception, p_failed_at>>
              ELSE /\ ProfileFail("rating_scroll")
                   /\ UNCHANGED rating_scrolls
    /\ UNCHANGED <<page_open, listener_on, head_api_future, head_from, head_arrived,
                   head_handlers, all_items, stop_item_scrolling, all_ratings,
                   stop_rating_scrolling, profile_data, seller_info, item_scrolls,
                   listener_raised>>

\* lines 245-249: wait up to 8 seconds for stop_rating_scrolling.
RatingWait ==
    /\ p_pc = "rating_wait"
    /\ p_pc' = IF stop_rating_scrolling
               THEN "rating_loop"
               ELSE after_scroll_timeout("rating_loop", "ratings_parse")
    /\ UNCHANGED <<page_open, listener_on, head_api_future, head_from, head_arrived,
                   head_handlers, all_items, stop_item_scrolling, all_ratings,
                   stop_rating_scrolling, profile_data, seller_info, p_exception,
                   p_failed_at, item_scrolls, rating_scrolls, listener_raised>>

\* lines 251-253: parse_ratings_data and calculate_reputation_from_ratings.
RatingsParse ==
    /\ p_pc = "ratings_parse"
    /\ \E ok \in BOOLEAN :
         IF ok
         THEN /\ profile_data' = [profile_data EXCEPT !.ratings = all_ratings]
              /\ p_pc' = "finally"
              /\ UNCHANGED <<p_exception, p_failed_at>>
         ELSE /\ ProfileFail("ratings_parse")
              /\ UNCHANGED profile_data
    /\ UNCHANGED <<page_open, listener_on, head_api_future, head_from, head_arrived,
                   head_handlers, all_items, stop_item_scrolling, all_ratings,
                   stop_rating_scrolling, seller_info, item_scrolls, rating_scrolls,
                   listener_raised>>

\* line 259: page.remove_listener("response", handle_response).
RemoveListener ==
    /\ p_pc = "finally"
    /\ listener_on' = FALSE
    /\ p_pc' = "close"
    /\ UNCHANGED <<page_open, head_api_future, head_from, head_arrived, head_handlers,
                   all_items, stop_item_scrolling, all_ratings, stop_rating_scrolling,
                   profile_data, seller_info, p_exception, p_failed_at, item_scrolls,
                   rating_scrolls, listener_raised>>

\* line 260: page.close().
ClosePage ==
    /\ p_pc = "close"
    /\ page_open' = FALSE
    /\ p_pc' = "after_finally"
    /\ UNCHANGED <<listener_on, head_api_future, head_from, head_arrived, head_handlers,
                   all_items, stop_item_scrolling, all_ratings, stop_rating_scrolling,
                   profile_data, seller_info, p_exception, p_failed_at, item_scrolls,
                   rating_scrolls, listener_raised>>

\* line 263: return profile_data (an exception that was not caught leaves the
\* function instead).
ProfileReturn ==
    /\ p_pc = "after_finally"
    /\ p_pc' = IF p_exception /\ ~except_catches THEN "raised" ELSE "returned"
    /\ UNCHANGED <<page_open, listener_on, head_api_future, head_from, head_arrived,
                   head_handlers, all_items, stop_item_scrolling, all_ratings,
                   stop_rating_scrolling, profile_data, seller_info, p_exception,
                   p_failed_at, item_scrolls, rating_scrolls, listener_raised>>

\* lines 864-876 of the caller: the returned profile becomes the seller part
\* of the record, which goes on to the analysis and the save.
CallerAssemble ==
    /\ p_pc = "returned"
    /\ seller_info' = profile_data
    /\ p_pc' = "assembled"
    /\ UNCHANGED <<page_open, listener_on, head_api_future, head_from, head_arrived,
                   head_handlers, all_items, stop_item_scrolling, all_ratings,
                   stop_rating_scrolling, profile_data, p_exception, p_failed_at,
                   item_scrolls, rating_scrolls, listener_raised>>

\* lines 878-901 of the caller: images, analysis, notification and
\* save_to_jsonl; an exception on the way is the item's failure (line 921).
CallerPersist ==
    /\ p_pc = "assembled"
    /\ \E ok \in BOOLEAN : p_pc' = IF ok THEN "persisted" ELSE "item_failed"
    /\ UNCHANGED <<page_open, listener_on, head_api_future, head_from, head_arrived,
                   head_handlers, all_items, stop_item_scrolling, all_ratings,
                   stop_rating_scrolling, profile_data, seller_info, p_exception,
                   p_failed_at, item_scrolls, rating_scrolls, listener_raised>>

\* handle_response, line 185: a head response arrives; its handler starts to
\* decode the body unless the future is done.
HeadArrive ==
    /\ listener_on
    /\ head_arrived < MaxHeadResponses
    /\ head_arrived' = head_arrived + 1
    /\ head_handlers' = IF head_api_future = "pending"
                        THEN head_handlers \cup {head_arrived + 1}
                        ELSE head_handlers
    /\ UNCHANGED <<p_pc, page_open, listener_on, head_api_future, head_from, all_items,
                   stop_item_scrolling, all_ratings, stop_rating_scrolling,
                   profile_data, seller_info, p_exception, p_failed_at, item_scrolls,
                   rating_scrolls, listener_raised>>

\* The handler of lines 190-191 completes the future without looking at it.
except_guard_missing(fut) == TRUE

\* line 191: if not head_api_future.done()
except_guard(fut) == fut = "pending"

\* handle_response, lines 186-191: response.json() of a head response ends.
\* set_result on a future that is done raises InvalidStateError, which the
\* except clause of line 190 catches like a decoding error.
HeadDecoded ==
    \E id \in head_handlers, decoded \in BOOLEAN :
        /\ head_handlers' = head_handlers \ {id}
        /\ IF decoded /\ head_api_future = "pending"
           THEN /\ head_api_future' = "result"
                /\ head_from' = id
                /\ UNCHANGED listener_raised
           ELSE IF except_guard(head_api_future)
           THEN IF head_api_future = "pending"
                THEN /\ head_api_future' = "exception"
                     /\ head_from' = id
                     /\ UNCHANGED listener_raised
                ELSE \* set_exception on a done future raises out of the handler
                     /\ listener_raised' = TRUE
                     /\ UNCHANGED <<head_api_future, head_from>>
           ELSE UNCHANGED <<head_api_future, head_from, listener_raised>>
        /\ UNCHANGED <<p_pc, page_open, listener_on, head_arrived, all_items,
                       stop_item_scrolling, all_ratings, stop_rating_scrolling,
                       profile_data, seller_info, p_exception, p_failed_at,
                       item_scrolls, rating_scrolls>>

\* handle_response, lines 194-202: an item-list response is handled.
ItemListResponse ==
    /\ listener_on
    /\ \E decoded \in BOOLEAN, cards \in 0..1, nextPage \in BOOLEAN :
         /\ all_items + cards <= MaxCards
         /\ IF decoded
            THEN /\ all_items' = all_items + cards
                 /\ stop_item_scrolling' = (stop_item_scrolling \/ ~nextPage)
            ELSE /\ cards = 0 /\ nextPage
                 /\ stop_item_scrolling' = TRUE
                 /\ UNCHANGED all_items
    /\ UNCHANGED <<p_pc, page_open, listener_on, head_api_future, head_from,
                   head_arrived, head_handlers, all_ratings, stop_rating_scrolling,
                   profile_data, seller_info, p_exception, p_failed_at, item_scrolls,
                   rating_scrolls, listener_raised>>

\* handle_response, lines 205-213: a rating-list response is handled.
RatingListResponse ==
    /\ listener_on
    /\ \E decoded \in BOOLEAN, cards \in 0..1, nextPage \in BOOLEAN :
         /\ all_ratings + cards <= MaxCards
         /\ IF decoded
            THEN /\ all_ratings' = all_ratings + cards
                 /\ stop_rating_scrolling' = (stop_rating_scrolling \/ ~nextPage)
            ELSE /\ cards = 0 /\ nextPage
                 /\ stop_rating_scrolling' = TRUE
                 /\ UNCHANGED all_ratings
    /\ UNCHANGED <<p_pc, page_open, listener_on, head_api_future, head_from,
                   head_arrived, head_handlers, all_items, stop_item_scrolling,
                   profile_data, seller_info, p_exception, p_failed_at, item_scrolls,
                   rating_scrolls, listener_raised>>

\* ------------------------------------------------------ retry_on_failure
\* The decorated functions of the module with the arguments of their
\* decorators (lines 446, 511, 581).
Decorators ==
    { [func |-> "_download_single_image", retries |-> 2, delay |-> 3],
      [func |-> "send_ntfy_notification", retries |-> 3, delay |-> 5],
      [func |-> "get_ai_analysis", retries |-> 5, delay |-> 10] }

NoDecorator == [func |-> "none", retries |-> 0, delay |-> 0]

\* What the wrapper's except clauses catch (subclasses of Exception), and
\* what they do not (asyncio.CancelledError is a BaseException).
Exceptions == {"APIStatusError", "HTTPError", "JSONDecodeError", "Exception"}
BaseExceptions == {"CancelledError"}

\* What a call of the decorated function ends with: a returned value or a
\* raised exception.  get_ai_analysis returns what json.loads gave: a
\* verdict that recommends or not, an empty object, or a value that is no
\* object (lines 645, 649); it raises the client's errors (line 623) and
\* the JSONDecodeError of line 655.
Returns(func) ==
    CASE func = "get_ai_analysis" ->
            {"recommended", "not_recommended", "empty_dict", "non_dict"}
      [] func = "send_ntfy_notification" -> {"None"}
      [] func = "_download_single_image" -> {"save_path"}

Raises(func) ==
    CASE func = "get_ai_analysis" ->
            {"APIStatusError", "JSONDecodeError", "Exception", "CancelledError"}
      [] func = "send_ntfy_notification" -> {"Exception", "CancelledError"}
      [] func = "_download_single_image" -> {"HTTPError", "Exception", "CancelledError"}

RetryIdle ==
    /\ r_pc = "off"
    /\ r_dec = NoDecorator
    /\ r_i = 0
    /\ r_attempts = <<>>
    /\ r_sleeps = 0
    /\ r_slept = 0
    /\ r_result = "unset"
    /\ r_call_outcome = "none"
    /\ r_ai_analysis = "unset"
    /\ r_notification_sent = FALSE
    /\ r_saved = FALSE

\* line 419: the wrapper of one of the decorated functions is called; for
\* get_ai_analysis this is line 885 of the caller, with
\* ai_analysis_result = None (line 882).
RetryInit ==
    /\ r_pc = "loop"
    /\ r_dec \in Decorators
    /\ r_i = 0
    /\ r_attempts = <<>>
    /\ r_sleeps = 0
    /\ r_slept = 0
    /\ r_result = "unset"
    /\ r_call_outcome = "none"
    /\ r_ai_analysis = "unset"
    /\ r_notification_sent = FALSE
    /\ r_saved = FALSE

\* line 420: for i in range(retries); lines 440-441 after the loop.
RetryLoop ==
    /\ r_pc = "loop"
    /\ IF r_i < r_dec.retries
       THEN /\ r_pc' = "attempt"
            /\ UNCHANGED r_result
       ELSE /\ r_result' = "None"
            /\ r_pc' = "returned"
    /\ UNCHANGED <<r_dec, r_i, r_attempts, r_sleeps, r_slept, r_call_outcome,
                   r_ai_analysis, r_notification_sent, r_saved>>

\* The wrapper catches the HTTP errors alone.
wrapper_catches_http_only(err) == err \in {"APIStatusError", "HTTPError"}

\* lines 423, 431, 433: except (APIStatusError, HTTPError), except
\* json.JSONDecodeError, except Exception.
wrapper_catches(err) == err \in Exceptions

\* lines 421-434: return await func(*args, **kwargs) and the except clauses.
RetryAttempt ==
    /\ r_pc = "attempt"
    /\ \E o \in Returns(r_dec.func) \cup Raises(r_dec.func) :
         /\ r_attempts' = Append(r_attempts, o)
         /\ IF o \in Returns(r_dec.func)
            THEN /\ r_result' = o
                 /\ r_pc' = "returned"
            ELSE /\ r_result' = IF wrapper_catches(o) THEN r_result ELSE o
                 /\ r_pc' = IF wrapper_catches(o) THEN "caught" ELSE "raised"
    /\ UNCHANGED <<r_dec, r_i, r_sleeps, r_slept, r_call_outcome, r_ai_analysis,
                   r_notification_sent, r_saved>>

\* The wrapper sleeps after every failed attempt.
sleeps_after_every(i, retries) == i < retries

\* line 436: if i < retries - 1
sleeps_before_next(i, retries) == i < retries - 1

\* line 436: after a caught exception.
RetryAfterFailure ==
    /\ r_pc = "caught"
    /\ IF sleeps_before_next(r_i, r_dec.retries)
       THEN /\ r_pc' = "sleep"
            /\ UNCHANGED r_i
       ELSE /\ r_i' = r_i + 1
            /\ r_pc' = "loop"
    /\ UNCHANGED <<r_dec, r_attempts, r_sleeps, r_slept, r_result, r_call_outcome,
                   r_ai_analysis, r_notification_sent, r_saved>>

\* line 438: await asyncio.sleep(delay); a cancellation ends the call.
RetrySleep ==
    /\ r_pc = "sleep"
    /\ \E cancelled \in BOOLEAN :
         IF cancelled
         THEN /\ r_result' = "CancelledError"
              /\ r_pc' = "raised"
              /\ UNCHANGED <<r_sleeps, r_slept, r_i>>
         ELSE /\ r_sleeps' = r_sleeps + 1
              /\ r_slept' = r_slept + r_dec.delay
              /\ r_i' = r_i + 1
              /\ r_pc' = "loop"
              /\ UNCHANGED r_result
    /\ UNCHANGED <<r_dec, r_attempts, r_call_outcome, r_ai_analysis,
                   r_notification_sent, r_saved>>

\* lines 884-893 of the caller of get_ai_analysis: the value is the record's
\* analysis if it is truthy, the "returned None" marker if not; an exception
\* (of the call, or of line 888 on a value without .get) that the except
\* clause of line 891 catches is the marker str(e).  A cancellation is no
\* Exception and ends the item's processing.
CallerHandle ==
    /\ r_dec.func = "get_ai_analysis"
    /\ r_pc \in {"returned", "raised"}
    /\ IF r_pc = "returned"
       THEN /\ r_call_outcome' = "value"
            /\ r_ai_analysis' =
                 CASE r_result \in {"recommended", "not_recommended"} -> "verdict"
                   [] r_result \in {"None", "empty_dict"} -> "error_none"
                   [] OTHER -> "error_exception"
            /\ r_pc' = "handled"
       ELSE /\ r_call_outcome' = r_result
            /\ IF r_result \in Exceptions
               THEN /\ r_ai_analysis' = "error_exception"
                    /\ r_pc' = "handled"
               ELSE /\ r_pc' = "cancelled"
                    /\ UNCHANGED r_ai_analysis
    /\ UNCHANGED <<r_dec, r_i, r_attempts, r_sleeps, r_slept, r_result,
                   r_notification_sent, r_saved>>

\* lines 897-901 of the caller: the notification for a verdict that
\* recommends, then save_to_jsonl; .get on a truthy value that is no object
\* raises, which is the item's failure (line 921).
CallerNotifyAndSave ==
    /\ r_pc = "handled"
    /\ IF r_call_outcome = "value" /\ r_result = "non_dict"
       THEN /\ r_pc' = "item_failed"
            /\ UNCHANGED <<r_notification_sent, r_saved>>
       ELSE /\ r_notification_sent' = (r_call_outcome = "value" /\ r_result = "recommended")
            /\ r_saved' = TRUE
            /\ r_pc' = "saved"
    /\ UNCHANGED <<r_dec, r_i, r_attempts, r_sleeps, r_slept, r_result, r_call_outcome,
                   r_ai_analysis>>

\* ------------------------------------------------ send_ntfy_notification
Channels == {"ntfy", "wx"}

NotifyIdle ==
    /\ n_pc = "off"
    /\ n_config = [c \in Channels |-> FALSE]
    /\ n_i = 0
    /\ n_posts = [c \in Channels |-> 0]
    /\ n_outcome = [c \in Channels |-> "none"]
    /\ n_cancelled = FALSE

\* line 899: send_ntfy_notification is called, with the environment of
\* lines 34-35 as it was read at import.
NotifyInit ==
    /\ n_pc = "start"
    /\ n_config \in [Channels -> BOOLEAN]
    /\ n_i = 0
    /\ n_posts = [c \in Channels |-> 0]
    /\ n_outcome = [c \in Channels |-> "none"]
    /\ n_cancelled = FALSE

\* The decorator of line 511.
notify_decorator == CHOOSE d \in Decorators : d.func = "send_ntfy_notification"

\* lines 514-527: without a configured channel the function returns;
\* otherwise the title and the message are built, which raises when the
\* title is not a string (title[:30]).
NotifyStart ==
    /\ n_pc = "start"
    /\ IF ~n_config["ntfy"] /\ ~n_config["wx"]
       THEN n_pc' = "returned"
       ELSE \E built \in BOOLEAN : n_pc' = IF built THEN "ntfy" ELSE "caught"
    /\ UNCHANGED <<n_config, n_i, n_posts, n_outcome, n_cancelled>>

\* lines 433-441 of the wrapper: the exception is caught, and the function is
\* called again after the delay unless this was the last attempt.
NotifyRetry ==
    /\ n_pc = "caught"
    /\ n_i' = n_i + 1
    /\ n_pc' = IF n_i + 1 < notify_decorator.retries THEN "start" ELSE "returned"
    /\ UNCHANGED <<n_config, n_posts, n_outcome, n_cancelled>>

\* The posts are not in a try block: an exception of a post leaves the
\* function.
post_exception_propagates(o) == IF o = "exception" THEN "caught" ELSE "next"

\* lines 548-549 and 576-579: whatever a post raises is caught and printed.
post_exception(o) == "next"

\* How a post can end: the request is answered with a success or an error
\* status, or raises (connection error, timeout).
PostOutcomes == {"ok", "error_status", "exception"}

\* lines 530-549: the ntfy channel.  The status of the answer is not read.
NotifyNtfy ==
    /\ n_pc = "ntfy"
    /\ IF n_config["ntfy"]
       THEN \E o \in PostOutcomes \cup {"cancelled"} :
              IF o = "cancelled"
              THEN /\ n_cancelled' = TRUE
                   /\ n_pc' = "raised"
                   /\ UNCHANGED <<n_posts, n_outcome>>
              ELSE /\ n_posts' = [n_posts EXCEPT !["ntfy"] = @ + 1]
                   /\ n_outcome' = [n_outcome EXCEPT !["ntfy"] = o]
                   /\ n_pc' = IF post_exception(o) = "next" THEN "wx" ELSE "caught"
                   /\ UNCHANGED n_cancelled
       ELSE /\ n_pc' = "wx"
            /\ UNCHANGED <<n_posts, n_outcome, n_cancelled>>
    /\ UNCHANGED <<n_config, n_i>>

\* lines 552-579: the bot channel.  raise_for_status turns an error status
\* into an exception, and response.json() raises on a body that is no JSON
\* (bad_body); all are caught.
NotifyWx ==
    /\ n_pc = "wx"
    /\ IF n_config["wx"]
       THEN \E o \in PostOutcomes \cup {"bad_body", "cancelled"} :
              IF o = "cancelled"
              THEN /\ n_cancelled' = TRUE
                   /\ n_pc' = "raised"
                   /\ UNCHANGED <<n_posts, n_outcome>>
              ELSE /\ n_posts' = [n_posts EXCEPT !["wx"] = @ + 1]
                   /\ n_outcome' = [n_outcome EXCEPT !["wx"] = o]
                   /\ n_pc' = IF post_exception(IF o = "ok" THEN o ELSE "exception") = "next"
                              THEN "returned" ELSE "caught"
                   /\ UNCHANGED n_cancelled
       ELSE /\ n_pc' = "returned"
            /\ UNCHANGED <<n_posts, n_outcome, n_cancelled>>
    /\ UNCHANGED <<n_config, n_i>>

\* lines 899-901 of the caller: the result of the call is not read; the
\* record is saved next.
NotifyCallerSave ==
    /\ n_pc = "returned"
    /\ n_pc' = "save"
    /\ UNCHANGED <<n_config, n_i, n_posts, n_outcome, n_cancelled>>

\* ------------------------------------------ scrape_xianyu: history load
\* What a line of a history file can be.
Lines == {RecordLine(l) : l \in Links} \cup {NotJsonLine, NoLinkLine, NotObjectLine}

LoadIdle ==
    /\ h_pc = "off"
    /\ h_file = <<>>
    /\ h_exists = FALSE
    /\ h_pos = 0
    /\ h_links = {}
    /\ h_skipped = 0

\* line 673: processed_links = set(), before any file of any content.
LoadInit ==
    /\ h_pc = "exists"
    /\ h_file \in SeqsUpTo(Lines, MaxLines)
    /\ h_exists \in BOOLEAN
    /\ (~h_exists => h_file = <<>>)
    /\ h_pos = 0
    /\ h_links = {}
    /\ h_skipped = 0

\* lines 675-678 and 688-691: without a file the task goes on; open() may
\* raise IOError, which is caught.
LoadOpen ==
    /\ h_pc = "exists"
    /\ IF h_exists
       THEN \E opened \in BOOLEAN : h_pc' = IF opened THEN "reading" ELSE "task_goes_on"
       ELSE h_pc' = "task_goes_on"
    /\ UNCHANGED <<h_file, h_exists, h_pos, h_links, h_skipped>>

\* lines 681-686: json.loads raises JSONDecodeError on a line that is no
\* JSON, which is caught and the line skipped; .get on a decoded value that is
\* no object raises AttributeError, which no handler of the function catches.
line_exception(kind) ==
    CASE kind = "notjson" -> "skip"
      [] kind = "notobject" -> "raise"
      [] OTHER -> "none"

\* lines 679-686: one turn of `for line in f`.
LoadLine ==
    /\ h_pc = "reading"
    /\ h_pos < Len(h_file)
    /\ h_pos' = h_pos + 1
    /\ LET line == h_file[h_pos + 1]
           x == line_exception(line.kind)
       IN /\ h_links' = IF x = "none" /\ line.item_link # NoLink
                        THEN h_links \cup {get_link_unique_key(line.item_link)}
                        ELSE h_links
          /\ h_skipped' = IF x = "skip" THEN h_skipped + 1 ELSE h_skipped
          /\ h_pc' = IF x = "raise" THEN "raised" ELSE "reading"
    /\ UNCHANGED <<h_file, h_exists>>

\* lines 688-689: reading the file raises IOError, which is caught outside
\* the loop: the rest of the file is not read and the task goes on.
LoadReadError ==
    /\ h_pc = "reading"
    /\ h_pos < Len(h_file)
    /\ h_pc' = "task_goes_on"
    /\ UNCHANGED <<h_file, h_exists, h_pos, h_links, h_skipped>>

\* line 687: the file is read to its end.
LoadEnd ==
    /\ h_pc = "reading"
    /\ h_pos = Len(h_file)
    /\ h_pc' = "loaded"
    /\ UNCHANGED <<h_file, h_exists, h_pos, h_links, h_skipped>>

\* ----------------------------------------------------- get_link_unique_key
\* Links as strings: characters that are '&' and characters that are not.
LinkChars == {"a", "b", "&"}
LinkStrings == SeqsUpTo(LinkChars, MaxLinkLen)

KeyIdle ==
    /\ k_pc = "off"
    /\ k_link = <<>>
    /\ k_key = <<>>
    /\ k_again = <<>>

\* line 814, before the call: any link.
KeyInit ==
    /\ k_pc = "link"
    /\ k_link \in LinkStrings
    /\ k_key = <<>>
    /\ k_again = <<>>

\* line 814: unique_key = get_link_unique_key(item_data['item_link'])
KeyCompute ==
    /\ k_pc = "link"
    /\ k_key' = get_link_unique_key(k_link)
    /\ k_pc' = "key"
    /\ UNCHANGED <<k_link, k_again>>

\* lines 91-93 applied to a key, as the history load does to the link of a
\* record (line 684).
KeyAgain ==
    /\ k_pc = "key"
    /\ k_again' = get_link_unique_key(k_key)
    /\ k_pc' = "again"
    /\ UNCHANGED <<k_link, k_key>>

\* ------------------------------------------------ history file of a task
\* Keywords as strings: a letter, the space and the underscore.
KeywordChars == {"a", " ", "_"}
Keywords == SeqsUpTo(KeywordChars, MaxKeywordLen)
FileTasks == {1, 2}
NoFile == <<>>

RECURSIVE replace(_, _, _)
\* str.replace(old, new) for one-character old and new
replace(s, old, new) ==
    IF s = <<>> THEN <<>>
    ELSE <<IF Head(s) = old THEN new ELSE Head(s)>> \o replace(Tail(s), old, new)

\* line 674: os.path.join("jsonl", f"{keyword.replace(' ', '_')}_full_data.jsonl")
output_filename(keyword) == <<"jsonl/">> \o replace(keyword, " ", "_") \o <<"_full_data.jsonl">>

\* line 105: os.path.join(output_dir, f"{keyword.replace(' ', '_')}_full_data.jsonl")
filename(keyword) == <<"jsonl/">> \o replace(keyword, " ", "_") \o <<"_full_data.jsonl">>

FilenameIdle ==
    /\ f_keyword = [t \in FileTasks |-> <<>>]
    /\ f_read = [t \in FileTasks |-> NoFile]
    /\ f_append = [t \in FileTasks |-> NoFile]

\* Two tasks of the configuration, each with its keyword (line 663).
FilenameInit ==
    /\ f_keyword \in [FileTasks -> Keywords]
    /\ f_read = [t \in FileTasks |-> NoFile]
    /\ f_append = [t \in FileTasks |-> NoFile]

\* lines 674-689: a task loads its history.
FileLoad ==
    \E t \in FileTasks :
        /\ f_read[t] = NoFile
        /\ f_read' = [f_read EXCEPT ![t] = output_filename(f_keyword[t])]
        /\ UNCHANGED <<f_keyword, f_append>>

\* lines 101-108 called at line 901: a task appends a record.
FileAppend ==
    \E t \in FileTasks :
        /\ f_read[t] # NoFile
        /\ f_append[t] = NoFile
        /\ f_append' = [f_append EXCEPT ![t] = filename(f_keyword[t])]
        /\ UNCHANGED <<f_keyword, f_read>>

\* --------------------------------------------- tasks on one event loop
\* The coroutines asyncio.gather runs on the one event loop (line 1013).
SchedTasks == {1, 2}

\* What a task waits in, in the order of a run with one item:
\*   response          page.expect_response (awaited)
\*   delay             random_sleep: asyncio.sleep (awaited)
\*   download_request  requests.get in run_in_executor (awaited), lines 451-454
\*   download_body     response.iter_content of a stream=True response, read
\*                     in the coroutine itself, lines 456-458 (synchronous)
\*   analysis          client.chat.completions.create of AsyncOpenAI (awaited)
\*   shutdown_sleep    asyncio.sleep(5), line 937 (awaited)
\*   input             input(), line 939 (synchronous)
\*   close             browser.close(), line 940 (awaited)
AwaitedStages == {"response", "delay", "download_request", "analysis", "shutdown_sleep", "close"}
SynchronousStages == {"download_body", "input"}
WaitingStages == AwaitedStages \cup SynchronousStages

SchedIdle ==
    /\ s_pc = [t \in SchedTasks |-> "off"]
    /\ s_debug_limit = 0
    /\ s_holder = 0

\* line 1013: the coroutines are started.
SchedInit ==
    /\ s_pc = [t \in SchedTasks |-> "start"]
    /\ s_debug_limit \in 0..MaxDebugLimit
    /\ s_holder = 0

\* The event loop runs a coroutine only when its thread is not inside a
\* synchronous call of another one.
CanRun(t) == s_holder \in {0, t}

\* Task t leaves the stage it is in and waits in stage `to`.
Enter(t, to) ==
    /\ CanRun(t)
    /\ s_pc' = [s_pc EXCEPT ![t] = to]
    /\ s_holder' = IF to \in SynchronousStages THEN t ELSE 0
    /\ UNCHANGED s_debug_limit

\* lines 705-719: the navigation under a response wait.
SchedAwaitResponse == \E t \in SchedTasks : s_pc[t] = "start" /\ Enter(t, "response")

\* lines 907-908: a random delay.
SchedDelay == \E t \in SchedTasks : s_pc[t] = "response" /\ Enter(t, "delay")

\* lines 449-454: the image request is handed to the executor.
SchedDownloadRequest ==
    \E t \in SchedTasks : s_pc[t] = "delay" /\ Enter(t, "download_request")

\* lines 455-458: the body of the image is read and written.
SchedDownloadBody ==
    \E t \in SchedTasks : s_pc[t] = "download_request" /\ Enter(t, "download_body")

\* line 623: the analysis request.
SchedAnalysis == \E t \in SchedTasks : s_pc[t] = "download_body" /\ Enter(t, "analysis")

\* lines 935-937: the task ends: finally, asyncio.sleep(5).
SchedShutdownSleep ==
    \E t \in SchedTasks : s_pc[t] = "analysis" /\ Enter(t, "shutdown_sleep")

\* lines 938-939: if debug_limit: input(...)
SchedInput ==
    \E t \in SchedTasks :
        /\ s_pc[t] = "shutdown_sleep"
        /\ s_debug_limit # 0
        /\ Enter(t, "input")

\* line 940: browser.close()
SchedClose ==
    \E t \in SchedTasks :
        /\ \/ s_pc[t] = "shutdown_sleep" /\ s_debug_limit = 0
           \/ s_pc[t] = "input"
        /\ Enter(t, "close")

\* line 942: return processed_item_count
SchedReturn == \E t \in SchedTasks : s_pc[t] = "close" /\ Enter(t, "done")

\* ---------------------------------------------------- download_all_images
NoPaths == <<0>>

ImagesIdle ==
    /\ i_pc = "off"
    /\ i_urls = <<>>
    /\ i_idx = 0
    /\ i_attempts = <<>>
    /\ i_dropped = {}
    /\ saved_paths = <<>>
    /\ i_analysed_with = NoPaths

\* lines 464-472: urls holds the http urls of the item; of each, the file
\* may be in the cache already.
ImagesInit ==
    /\ i_pc = "loop"
    /\ i_urls \in SeqsUpTo({"cached", "remote"}, MaxImages)
    /\ i_idx = 0
    /\ i_attempts = [k \in 1..Len(i_urls) |-> 0]
    /\ i_dropped = {}
    /\ saved_paths = <<>>
    /\ i_analysed_with = NoPaths

\* The decorator of line 446.
download_decorator == CHOOSE d \in Decorators : d.func = "_download_single_image"

\* The loop ends at the first image that fails.
after_image_stop_on_failure(idx, n, failed) == IF failed THEN n ELSE idx + 1

\* lines 473-494: the try block is inside the loop: after an image, failed
\* or not, the loop goes on with the next one.
after_image(idx, n, failed) == idx + 1

\* lines 473-487 and 493-494: the next image: its file name is built (an
\* exception there is caught and the image skipped); a file in the cache is
\* taken without a download.
ImageNext ==
    /\ i_pc = "loop"
    /\ i_idx < Len(i_urls)
    /\ \E named \in BOOLEAN :
         IF ~named
         THEN /\ i_dropped' = i_dropped \cup {i_idx + 1}
              /\ i_idx' = after_image(i_idx, Len(i_urls), TRUE)
              /\ UNCHANGED <<saved_paths, i_pc>>
         ELSE IF i_urls[i_idx + 1] = "cached"
         THEN /\ saved_paths' = Append(saved_paths, i_idx + 1)
              /\ i_idx' = after_image(i_idx, Len(i_urls), FALSE)
              /\ UNCHANGED <<i_dropped, i_pc>>
         ELSE /\ i_pc' = "download"
              /\ UNCHANGED <<saved_paths, i_dropped, i_idx>>
    /\ UNCHANGED <<i_urls, i_attempts, i_analysed_with>>

\* lines 489-492 with the wrapper of lines 419-441 around lines 447-459: one
\* call of the download; after the last failed call the wrapper returns None
\* and the image is not appended.
ImageAttempt ==
    /\ i_pc = "download"
    /\ i_attempts[i_idx + 1] < download_decorator.retries
    /\ i_attempts' = [i_attempts EXCEPT ![i_idx + 1] = @ + 1]
    /\ \E ok \in BOOLEAN :
         IF ok
         THEN /\ saved_paths' = Append(saved_paths, i_idx + 1)
              /\ i_idx' = after_image(i_idx, Len(i_urls), FALSE)
              /\ i_pc' = "loop"
              /\ UNCHANGED i_dropped
         ELSE IF i_attempts[i_idx + 1] + 1 < download_decorator.retries
         THEN UNCHANGED <<saved_paths, i_idx, i_pc, i_dropped>>
         ELSE /\ i_dropped' = i_dropped \cup {i_idx + 1}
              /\ i_idx' = after_image(i_idx, Len(i_urls), TRUE)
              /\ i_pc' = "loop"
              /\ UNCHANGED saved_paths
    /\ UNCHANGED <<i_urls, i_analysed_with>>

\* line 496: return saved_paths
ImagesReturn ==
    /\ i_pc = "loop"
    /\ i_idx >= Len(i_urls)
    /\ i_pc' = "returned"
    /\ UNCHANGED <<i_urls, i_idx, i_attempts, i_dropped, saved_paths, i_analysed_with>>

\* lines 880-895 of the caller: the analysis is called with the paths
\* returned (when a prompt is configured).
ImagesCallerAnalyse ==
    /\ i_pc = "returned"
    /\ i_analysed_with' = saved_paths
    /\ i_pc' = "analysed"
    /\ UNCHANGED <<i_urls, i_idx, i_attempts, i_dropped, saved_paths>>

\* lines 897-901 of the caller: notification and save; an exception on the
\* way is the item's failure (line 921).
ImagesCallerSave ==
    /\ i_pc = "analysed"
    /\ \E ok \in BOOLEAN : i_pc' = IF ok THEN "persisted" ELSE "item_failed"
    /\ UNCHANGED <<i_urls, i_idx, i_attempts, i_dropped, saved_paths, i_analysed_with>>

\* --------------------------------------- calculate_reputation_from_ratings
\* What the text of a card's first rate tag can be: a text with the seller
\* marker, with the buyer marker, with both, with neither (or no tag: the
\* default ''), or a value that is no text (`in` raises TypeError).
Roles == {"seller", "buyer", "both", "other", "not_text"}
\* rate: 1 positive, 0 neutral, -1 negative
Rates == {1, 0, -1}
Cards == [role : Roles, rate : Rates]

NoReputation == [positive_reviews_as_seller |-> <<>>, positive_rate_as_seller |-> <<>>,
                 positive_reviews_as_buyer |-> <<>>, positive_rate_as_buyer |-> <<>>]

ReputationIdle ==
    /\ q_pc = "off"
    /\ ratings_json = <<>>
    /\ q_idx = 0
    /\ seller_total = 0
    /\ seller_positive = 0
    /\ buyer_total = 0
    /\ buyer_positive = 0
    /\ reputation = NoReputation

\* lines 114-119: the call, with any list of cards.
ReputationInit ==
    /\ q_pc = "loop"
    /\ ratings_json \in SeqsUpTo(Cards, MaxRatings)
    /\ q_idx = 0
    /\ seller_total = 0
    /\ seller_positive = 0
    /\ buyer_total = 0
    /\ buyer_positive = 0
    /\ reputation = NoReputation

\* line 127: if "卖家" in role_tag or "Seller" in role_tag
counts_as_seller(role) == role \in {"seller", "both"}

\* The buyer test is an `if` of its own.
counts_as_buyer_if(role) == role \in {"buyer", "both"}

\* line 131: elif "买家" in role_tag or "Buyer" in role_tag
counts_as_buyer(role) == role \in {"buyer", "both"} /\ ~counts_as_seller(role)

\* lines 121-134: one turn of the loop.
ReputationCard ==
    /\ q_pc = "loop"
    /\ q_idx < Len(ratings_json)
    /\ LET card == ratings_json[q_idx + 1]
       IN IF card.role = "not_text"
          THEN /\ q_pc' = "raised"
               /\ UNCHANGED <<q_idx, seller_total, seller_positive, buyer_total, buyer_positive>>
          ELSE /\ q_idx' = q_idx + 1
               /\ seller_total' = seller_total + IF counts_as_seller(card.role) THEN 1 ELSE 0
               /\ seller_positive' = seller_positive +
                    IF counts_as_seller(card.role) /\ card.rate = 1 THEN 1 ELSE 0
               /\ buyer_total' = buyer_total + IF counts_as_buyer(card.role) THEN 1 ELSE 0
               /\ buyer_positive' = buyer_positive +
                    IF counts_as_buyer(card.role) /\ card.rate = 1 THEN 1 ELSE 0
               /\ UNCHANGED q_pc
    /\ UNCHANGED <<ratings_json, reputation>>

\* The hundredths are cut off, not rounded.
format_rate_truncated(positive, total) ==
    IF total > 0
    THEN LET h == (positive * 10000) \div total
         IN <<h \div 100, (h \div 10) % 10, h % 10, "%">>
    ELSE <<"N/A">>

\* lines 137-138: f"{(positive / total * 100):.2f}%" if total > 0 else "N/A".
\* The text is the whole part, the two decimals and the sign; .2f rounds to
\* the nearest hundredth, a tie to the even one.
format_rate(positive, total) ==
    IF total > 0
    THEN LET q == (positive * 10000) \div total
             r == (positive * 10000) % total
             h == IF 2 * r > total THEN q + 1
                  ELSE IF 2 * r < total THEN q
                  ELSE q + (q % 2)
         IN <<h \div 100, (h \div 10) % 10, h % 10, "%">>
    ELSE <<"N/A">>

\* lines 136-145: the rates and the dictionary returned.
ReputationReturn ==
    /\ q_pc = "loop"
    /\ q_idx = Len(ratings_json)
    /\ reputation' =
         [positive_reviews_as_seller |-> <<seller_positive, "/", seller_total>>,
          positive_rate_as_seller |-> format_rate(seller_positive, seller_total),
          positive_reviews_as_buyer |-> <<buyer_positive, "/", buyer_total>>,
          positive_rate_as_buyer |-> format_rate(buyer_positive, buyer_total)]
    /\ q_pc' = "returned"
    /\ UNCHANGED <<ratings_json, q_idx, seller_total, seller_positive, buyer_total,
                   buyer_positive>>

\* ------------------------------------------------- format_registration_days
\* The argument: an int of any sign, or a value that is no int (the field
\* missing from the payload, a text).
DayCounts ==
    {[is_int |-> TRUE, days |-> d] : d \in (0 - 2)..MaxDays}
        \cup {[is_int |-> FALSE, days |-> 0]}

\* The texts, by their phrase and the numbers put in it.
Phrase(p, y, m) == [phrase |-> p, years |-> y, months |-> m]

DaysIdle ==
    /\ d_pc = "off"
    /\ total_days = [is_int |-> FALSE, days |-> 0]
    /\ d_text = Phrase("none", 0, 0)

\* line 375, the call with any argument.
DaysInit ==
    /\ d_pc = "call"
    /\ total_days \in DayCounts
    /\ d_text = Phrase("none", 0, 0)

\* line 383: DAYS_IN_YEAR = 365.25, in quarters of a day.
DAYS_IN_YEAR == 1461

\* The fraction is cut off.
round_floor(n, d) == n \div d

\* line 393: round(x) of Python 3 for x = n / d >= 0: the nearest integer,
\* a tie goes to the even one.
round(n, d) ==
    LET q == n \div d
        r == n % d
    IN IF 2 * r > d THEN q + 1
       ELSE IF 2 * r < d THEN q
       ELSE q + (q % 2)

\* lines 379-408. Days are counted in quarters, so that 365.25 days are
\* DAYS_IN_YEAR quarters and remaining_days / DAYS_IN_MONTH is
\* 12 * remaining / DAYS_IN_YEAR.
format_registration_days(arg) ==
    IF ~arg.is_int \/ arg.days <= 0
    THEN Phrase("Unknown", 0, 0)
    ELSE LET quarters == 4 * arg.days
             floor_years == quarters \div DAYS_IN_YEAR
             remaining == quarters - floor_years * DAYS_IN_YEAR
             rounded == round(12 * remaining, DAYS_IN_YEAR)
             years == IF rounded = 12 THEN floor_years + 1 ELSE floor_years
             months == IF rounded = 12 THEN 0 ELSE rounded
         IN IF years > 0 /\ months > 0 THEN Phrase("years_and_months", years, months)
            ELSE IF years > 0 /\ months = 0 THEN Phrase("years", years, 0)
            ELSE IF years = 0 /\ months > 0 THEN Phrase("months", 0, months)
            ELSE Phrase("less_than_a_month", 0, 0)

\* line 847: registration_duration_text = format_registration_days(...)
DaysFormat ==
    /\ d_pc = "call"
    /\ d_text' = format_registration_days(total_days)
    /\ d_pc' = "returned"
    /\ UNCHANGED <<total_days>>

\* ------------------------------------------- get_ai_analysis, the response
\* The text of a response, in tokens: the two braces, the key of a member
\* with its colon (and the comma before it), a number, and a piece of prose
\* that is no JSON.
ResponseChars == {"{", "}", "k", "1", "p"}
Responses == SeqsUpTo(ResponseChars, MaxResponseLen)

JSONDecodeError == [ok |-> FALSE, value |-> <<>>]
Decoded(text) == [ok |-> TRUE, value |-> text]

\* json.loads: a document is one value, a value is a number or an object,
\* an object is a pair of braces around members, a member is a key and a
\* value. The decoded value is told by its text.
RECURSIVE IsValue(_), IsMembers(_)
IsValue(s) ==
    \/ s = <<"1">>
    \/ /\ Len(s) >= 2
       /\ s[1] = "{"
       /\ s[Len(s)] = "}"
       /\ IsMembers(SubSeq(s, 2, Len(s) - 1))
IsMembers(s) ==
    \/ s = <<>>
    \/ /\ Len(s) >= 2
       /\ s[1] = "k"
       /\ \E j \in 2..Len(s) :
            /\ IsValue(SubSeq(s, 2, j))
            /\ IsMembers(SubSeq(s, j + 1, Len(s)))

json_loads(s) == IF IsValue(s) THEN Decoded(s) ELSE JSONDecodeError

\* str.rfind: the last position of c in s, 0 when there is none
rfind(s, c) ==
    LET ps == {i \in 1..Len(s) : s[i] = c}
    IN IF ps = {} THEN 0 ELSE CHOOSE p \in ps : \A q \in ps : q <= p

ExtractIdle ==
    /\ x_pc = "off"
    /\ ai_response_content = <<>>
    /\ x_parsed = JSONDecodeError

\* line 628: any text of the response.
ExtractInit ==
    /\ x_pc = "response"
    /\ ai_response_content \in Responses
    /\ x_parsed = JSONDecodeError

\* lines 640-649: the slice from the first '{' to the last '}' is decoded
\* when both are found, the whole text otherwise.
parse_response(content) ==
    LET json_start_index == find(content, "{", 1)
        json_end_index == rfind(content, "}")
    IN IF json_start_index # 0 /\ json_end_index # 0
       THEN json_loads(SubSeq(content, json_start_index, json_end_index))
       ELSE json_loads(content)

\* lines 637-655: the value is returned, a JSONDecodeError is raised again.
ExtractParse ==
    /\ x_pc = "response"
    /\ x_parsed' = parse_response(ai_response_content)
    /\ x_pc' = IF x_parsed'.ok THEN "returned" ELSE "raised"
    /\ UNCHANGED <<ai_response_content>>

\* --------------------------------------- the notifications of all the runs
\* The dedup keys of the links the search pages can hold.
LinkKeys == {get_link_unique_key(l) : l \in Links}

\* No call of send_ntfy_notification yet.
OnceIdle == notified = [k \in LinkKeys |-> 0]

\* A step of scrape_xianyu, with the calls of send_ntfy_notification (line
\* 899) counted by the key of the item; the count stops at 2.
Counted(A) ==
    /\ A
    /\ notified' =
         IF ~notification_sent /\ notification_sent'
         THEN [notified EXCEPT ![unique_key] = IF @ < 2 THEN @ + 1 ELSE @]
         ELSE notified

\* ------------------------------------ web_server: the scraper process
\* The coroutines that handle requests on the server's event loop at a time.
Handlers == {1, 2}
\* The pids create_subprocess_exec can give.
Pids == 1..MaxProcs

ServerIdle ==
    /\ scraper_process = 0
    /\ w_procs = [p \in Pids |-> "off"]
    /\ w_pc = [h \in Handlers |-> "off"]
    /\ w_ref = [h \in Handlers |-> 0]
    /\ w_replies = [h \in Handlers |-> "off"]

\* line 57: scraper_process = None; no request yet.
ServerInit ==
    /\ scraper_process = 0
    /\ w_procs = [p \in Pids |-> "none"]
    /\ w_pc = [h \in Handlers |-> "idle"]
    /\ w_ref = [h \in Handlers |-> 0]
    /\ w_replies = [h \in Handlers |-> "none"]

\* scraper_process and scraper_process.returncode is None: a process sent
\* SIGTERM has no return code until it has exited.
tracked_running ==
    scraper_process # 0 /\ w_procs[scraper_process] \in {"alive", "terminating"}

Reply(h, text) == w_replies' = [w_replies EXCEPT ![h] = text]

\* lines 228-244: start-all up to its await: the test of the global, then
\* create_subprocess_exec is awaited.
StartCheck ==
    \E h \in Handlers :
        /\ w_pc[h] = "idle"
        /\ IF tracked_running
           THEN /\ Reply(h, "400")
                /\ UNCHANGED w_pc
           ELSE /\ w_pc' = [w_pc EXCEPT ![h] = "spawning"]
                /\ UNCHANGED w_replies
        /\ UNCHANGED <<scraper_process, w_procs, w_ref>>

\* lines 244-253: the await returns: the child runs and the global is set
\* to it; or the call raised and the request is answered 500.
StartSpawn ==
    \E h \in Handlers, ok \in BOOLEAN :
        /\ w_pc[h] = "spawning"
        /\ IF ok
           THEN \E p \in Pids :
                  /\ w_procs[p] = "none"
                  /\ \A q \in Pids : q < p => w_procs[q] # "none"
                  /\ w_procs' = [w_procs EXCEPT ![p] = "alive"]
                  /\ scraper_process' = p
                  /\ Reply(h, "started")
           ELSE /\ Reply(h, "500")
                /\ UNCHANGED <<w_procs, scraper_process>>
        /\ w_pc' = [w_pc EXCEPT ![h] = "idle"]
        /\ UNCHANGED <<w_ref>>

\* lines 262-273: stop-all up to its await: the test of the global, SIGTERM
\* to the process group, then scraper_process.wait() is awaited.
StopSignal ==
    \E h \in Handlers :
        /\ w_pc[h] = "idle"
        /\ IF ~tracked_running
           THEN /\ Reply(h, "400")
                /\ UNCHANGED <<w_pc, w_ref, w_procs>>
           ELSE /\ w_procs' = [w_procs EXCEPT ![scraper_process] = "terminating"]
                /\ w_ref' = [w_ref EXCEPT ![h] = scraper_process]
                /\ w_pc' = [w_pc EXCEPT ![h] = "waiting"]
                /\ UNCHANGED w_replies
        /\ UNCHANGED <<scraper_process>>

\* lines 273-284: the wait returns when the process has exited;
\* scraper_process.pid is read from the global, which raises AttributeError
\* when the global is None by then (answered 500); else the global is reset.
StopReaped ==
    \E h \in Handlers :
        /\ w_pc[h] = "waiting"
        /\ w_procs[w_ref[h]] = "exited"
        /\ IF scraper_process = 0
           THEN /\ Reply(h, "500")
                /\ UNCHANGED scraper_process
           ELSE /\ scraper_process' = 0
                /\ Reply(h, "stopped")
        /\ w_pc' = [w_pc EXCEPT ![h] = "idle"]
        /\ w_ref' = [w_ref EXCEPT ![h] = 0]
        /\ UNCHANGED <<w_procs>>

\* lines 450-466: the status request, which has no await before its reply:
\* a tracked process that has finished is forgotten.
GetSystemStatus ==
    \E h \in Handlers :
        /\ w_pc[h] = "idle"
        /\ Reply(h, IF tracked_running THEN "running" ELSE "not_running")
        /\ scraper_process' = IF tracked_running THEN scraper_process ELSE 0
        /\ UNCHANGED <<w_procs, w_pc, w_ref>>

\* A scraper process ends: by itself (spider_v2.py returns or raises) or on
\* the SIGTERM it was sent.
ProcessExit ==
    \E p \in Pids :
        /\ w_procs[p] \in {"alive", "terminating"}
        /\ w_procs' = [w_procs EXCEPT ![p] = "exited"]
        /\ UNCHANGED <<scraper_process, w_pc, w_ref, w_replies>>

\* ------------------------------------- web_server: the task configuration
\* A task of config.json: its task_name, the criteria file it references
\* (named by the safe keyword of its file name) and its enabled flag.
CriteriaFiles == {"k1", "k2"}
ConfigTask(name, criteria, enabled) ==
    [task_name |-> name, ai_prompt_criteria_file |-> criteria, enabled |-> enabled]
NoArg == [task |-> ConfigTask(0, "none", FALSE), task_id |-> 0]

ConfigIdle ==
    /\ config_json = <<>>
    /\ prompt_files = {}
    /\ g_pc = [h \in Handlers |-> "off"]
    /\ g_tasks = [h \in Handlers |-> <<>>]
    /\ g_arg = [h \in Handlers |-> NoArg]
    /\ g_requests = 0
    /\ g_created = {}
    /\ g_deleted = {}

\* The server starts on a config.json without tasks (an empty list).
ConfigInit ==
    /\ config_json = <<>>
    /\ prompt_files = {}
    /\ g_pc = [h \in Handlers |-> "idle"]
    /\ g_tasks = [h \in Handlers |-> <<>>]
    /\ g_arg = [h \in Handlers |-> NoArg]
    /\ g_requests = 0
    /\ g_created = {}
    /\ g_deleted = {}

\* tasks.pop(task_id), task_id counted from 0
pop(tasks, task_id) ==
    SubSeq(tasks, 1, task_id) \o SubSeq(tasks, task_id + 2, Len(tasks))

\* Handler h takes a request; the task of a request is named by the number
\* of the request.
Take(h, to, tasks, arg) ==
    /\ g_pc[h] = "idle"
    /\ g_requests < MaxRequests
    /\ g_requests' = g_requests + 1
    /\ g_pc' = [g_pc EXCEPT ![h] = to]
    /\ g_tasks' = [g_tasks EXCEPT ![h] = tasks]
    /\ g_arg' = [g_arg EXCEPT ![h] = arg]

\* Handler h has answered.
Answered(h) ==
    /\ g_pc' = [g_pc EXCEPT ![h] = "idle"]
    /\ g_tasks' = [g_tasks EXCEPT ![h] = <<>>]
    /\ g_arg' = [g_arg EXCEPT ![h] = NoArg]

\* web_server lines 165-172: create_task reads config.json and appends the
\* new task to its copy; the task references a criteria file that exists.
CreateRead ==
    \E h \in Handlers, c \in prompt_files :
        LET task == ConfigTask(g_requests + 1, c, TRUE)
        IN /\ Take(h, "create_write", Append(config_json, task), [NoArg EXCEPT !.task = task])
           /\ UNCHANGED <<config_json, prompt_files, g_created, g_deleted>>

\* web_server lines 174-181: the copy is written back, or the write fails.
CreateWrite ==
    \E h \in Handlers, ok \in BOOLEAN :
        /\ g_pc[h] = "create_write"
        /\ IF ok
           THEN /\ config_json' = g_tasks[h]
                /\ g_created' = g_created \cup {g_arg[h].task.task_name}
           ELSE UNCHANGED <<config_json, g_created>>
        /\ Answered(h)
        /\ UNCHANGED <<prompt_files, g_requests, g_deleted>>

\* web_server lines 189-209: update_task reads config.json and disables the
\* task of an index in its copy; an index out of range is answered 404 and
\* an update that changes nothing 200, both without a write.
UpdateRead ==
    \E h \in Handlers, task_id \in 0..(MaxRequests - 1) :
        IF task_id < Len(config_json) /\ config_json[task_id + 1].enabled
        THEN /\ Take(h, "update_write",
                     [config_json EXCEPT ![task_id + 1].enabled = FALSE],
                     [NoArg EXCEPT !.task_id = task_id])
             /\ UNCHANGED <<config_json, prompt_files, g_created, g_deleted>>
        ELSE /\ Take(h, "idle", <<>>, NoArg)
             /\ UNCHANGED <<config_json, prompt_files, g_created, g_deleted>>

\* web_server lines 211-220: the copy is written back, or the write fails.
UpdateWrite ==
    \E h \in Handlers, ok \in BOOLEAN :
        /\ g_pc[h] = "update_write"
        /\ config_json' = IF ok THEN g_tasks[h] ELSE config_json
        /\ Answered(h)
        /\ UNCHANGED <<prompt_files, g_requests, g_created, g_deleted>>

\* web_server lines 349-368: delete_task reads config.json, pops the task of
\* an index from its copy and removes the criteria file the task references,
\* when it exists; an index out of range is answered 404.
DeleteRead ==
    \E h \in Handlers, task_id \in 0..(MaxRequests - 1) :
        IF task_id < Len(config_json)
        THEN /\ Take(h, "delete_write", pop(config_json, task_id),
                     [task |-> config_json[task_id + 1], task_id |-> task_id])
             /\ prompt_files' = prompt_files \ {config_json[task_id + 1].ai_prompt_criteria_file}
             /\ UNCHANGED <<config_json, g_created, g_deleted>>
        ELSE /\ Take(h, "idle", <<>>, NoArg)
             /\ UNCHANGED <<config_json, prompt_files, g_created, g_deleted>>

\* web_server lines 370-376: the copy is written back, or the write fails
\* and the request is answered 500.
DeleteWrite ==
    \E h \in Handlers, ok \in BOOLEAN :
        /\ g_pc[h] = "delete_write"
        /\ IF ok
           THEN /\ config_json' = g_tasks[h]
                /\ g_deleted' = g_deleted \cup {g_arg[h].task.task_name}
           ELSE UNCHANGED <<config_json, g_deleted>>
        /\ Answered(h)
        /\ UNCHANGED <<prompt_files, g_requests, g_created>>

\* web_server lines 107-128: generate_task names the criteria file after the
\* keyword, has the criteria generated and writes the file; a failure of
\* either is answered 500.
GenerateCriteria ==
    \E h \in Handlers, keyword \in CriteriaFiles, ok \in BOOLEAN :
        IF ok
        THEN /\ Take(h, "generate_read", <<>>,
                     [NoArg EXCEPT !.task = ConfigTask(g_requests + 1, keyword, TRUE)])
             /\ prompt_files' = prompt_files \cup {keyword}
             /\ UNCHANGED <<config_json, g_created, g_deleted>>
        ELSE /\ Take(h, "idle", <<>>, NoArg)
             /\ UNCHANGED <<config_json, prompt_files, g_created, g_deleted>>

\* prompt_generator lines 100-109: update_config_with_new_task reads
\* config.json and appends the new task to its copy.
GenerateConfigRead ==
    \E h \in Handlers :
        /\ g_pc[h] = "generate_read"
        /\ g_tasks' = [g_tasks EXCEPT ![h] = Append(config_json, g_arg[h].task)]
        /\ g_pc' = [g_pc EXCEPT ![h] = "generate_write"]
        /\ UNCHANGED <<config_json, prompt_files, g_arg, g_requests, g_created,
                       g_deleted>>

\* prompt_generator lines 111-123 and web_server lines 144-149: the copy is
\* written back and True returned; or the write fails, False is returned
\* and generate_task removes the criteria file it wrote.
GenerateConfigWrite ==
    \E h \in Handlers, ok \in BOOLEAN :
        /\ g_pc[h] = "generate_write"
        /\ IF ok
           THEN /\ config_json' = g_tasks[h]
                /\ g_created' = g_created \cup {g_arg[h].task.task_name}
                /\ UNCHANGED prompt_files
           ELSE /\ prompt_files' = prompt_files \ {g_arg[h].task.ai_prompt_criteria_file}
                /\ UNCHANGED <<config_json, g_created>>
        /\ Answered(h)
        /\ UNCHANGED <<g_requests, g_deleted>>

\* --------------------------------------------- web_server: the log file
LogsIdle ==
    /\ log_file = <<>>
    /\ l_written = 0
    /\ l_pc = "off"
    /\ from_pos = 0
    /\ file_size = 0
    /\ l_new_pos = 0
    /\ l_delivered = <<>>

\* web_server lines 233-238: start-all has created the log file; the client
\* starts polling from position 0.
LogsInit ==
    /\ log_file = <<>>
    /\ l_written = 0
    /\ l_pc = "idle"
    /\ from_pos = 0
    /\ file_size = 0
    /\ l_new_pos = 0
    /\ l_delivered = <<>>

\* web_server lines 244-248: the scraper process writes to the file, which
\* it inherited open in append mode, at any time.
ScraperAppend ==
    /\ l_pc # "off"
    /\ l_written < MaxBytes
    /\ l_written' = l_written + 1
    /\ log_file' = Append(log_file, l_written + 1)
    /\ UNCHANGED <<l_pc, from_pos, file_size, l_new_pos, l_delivered>>

\* web_server lines 287-304: a poll with the new_pos of the last one: the
\* file is opened and its size taken; a from_pos at or past it is answered
\* with no content and the size.
GetLogsSize ==
    /\ l_pc = "idle"
    /\ IF l_new_pos >= Len(log_file)
       THEN /\ l_new_pos' = Len(log_file)
            /\ UNCHANGED <<l_pc, from_pos, file_size>>
       ELSE /\ from_pos' = l_new_pos
            /\ file_size' = Len(log_file)
            /\ l_pc' = "read"
            /\ UNCHANGED l_new_pos
    /\ UNCHANGED <<log_file, l_written, l_delivered>>

\* web_server lines 306-316: seek(from_pos) and read(), which reads to the
\* end the file has by then; the answer carries the size measured before.
GetLogsRead ==
    /\ l_pc = "read"
    /\ l_delivered' = l_delivered \o SubSeq(log_file, from_pos + 1, Len(log_file))
    /\ l_new_pos' = file_size
    /\ l_pc' = "idle"
    /\ from_pos' = 0
    /\ file_size' = 0
    /\ UNCHANGED <<log_file, l_written>>

\* web_server lines 326-341: clear_logs truncates the file.
ClearLogs ==
    /\ l_pc # "off"
    /\ log_file # <<>>
    /\ log_file' = <<>>
    /\ UNCHANGED <<l_written, l_pc, from_pos, file_size, l_new_pos, l_delivered>>

\* ------------------------------------------------------------------- Spec
Init == ScrapeInit /\ MainIdle /\ CorrIdle /\ ProfileIdle /\ RetryIdle
    /\ NotifyIdle
    /\ LoadIdle
    /\ KeyIdle
    /\ FilenameIdle
    /\ SchedIdle
    /\ ImagesIdle
    /\ ReputationIdle
    /\ DaysIdle
    /\ ExtractIdle
    /\ OnceIdle
    /\ ServerIdle
    /\ ConfigIdle
    /\ LogsIdle

OthersIdle == UNCHANGED
    <<main_vars, corr_vars, profile_vars, retry_vars, notify_vars, load_vars, key_vars, filename_vars, sched_vars, images_vars, reputation_vars, days_vars, extract_vars, once_vars, server_vars, config_vars, logs_vars>>

Next ==
    \/ StartRun /\ OthersIdle
    \/ Navigate /\ OthersIdle
    \/ BaxiaCheck /\ OthersIdle
    \/ FilterSort /\ OthersIdle
    \/ FilterPersonal /\ OthersIdle
    \/ FilterPrice /\ OthersIdle
    \/ PageStep /\ OthersIdle
    \/ ItemCheck /\ OthersIdle
    \/ PageEnd /\ OthersIdle
    \/ DetailFetch /\ OthersIdle
    \/ DetailProcess /\ OthersIdle
    \/ Analyse /\ OthersIdle
    \/ Notify /\ OthersIdle
    \/ SaveItem /\ OthersIdle
    \/ ItemFinally /\ OthersIdle
    \/ Finally /\ OthersIdle
    \/ Interrupt /\ OthersIdle

Spec == Init /\ [][Next]_vars

\* --------------------------------------------------------------- SpecMain
InitMain == ScrapeInit /\ MainInit /\ CorrIdle /\ ProfileIdle /\ RetryIdle
    /\ NotifyIdle
    /\ LoadIdle
    /\ KeyIdle
    /\ FilenameIdle
    /\ SchedIdle
    /\ ImagesIdle
    /\ ReputationIdle
    /\ DaysIdle
    /\ ExtractIdle
    /\ OnceIdle
    /\ ServerIdle
    /\ ConfigIdle
    /\ LogsIdle

MainOthersIdle == UNCHANGED
    <<scrape_vars, corr_vars, profile_vars, retry_vars, notify_vars, load_vars, key_vars, filename_vars, sched_vars, images_vars, reputation_vars, days_vars, extract_vars, once_vars, server_vars, config_vars, logs_vars>>

NextMain ==
    \/ MainBuildParser /\ MainOthersIdle
    \/ MainParseArgs /\ MainOthersIdle

SpecMain == InitMain /\ [][NextMain]_vars

\* --------------------------------------------------------------- SpecCorr
InitCorr == ScrapeInit /\ MainIdle /\ CorrInit /\ ProfileIdle /\ RetryIdle
    /\ NotifyIdle
    /\ LoadIdle
    /\ KeyIdle
    /\ FilenameIdle
    /\ SchedIdle
    /\ ImagesIdle
    /\ ReputationIdle
    /\ DaysIdle
    /\ ExtractIdle
    /\ OnceIdle
    /\ ServerIdle
    /\ ConfigIdle
    /\ LogsIdle

CorrOthersIdle == UNCHANGED
    <<scrape_vars, main_vars, profile_vars, retry_vars, notify_vars, load_vars, key_vars, filename_vars, sched_vars, images_vars, reputation_vars, days_vars, extract_vars, once_vars, server_vars, config_vars, logs_vars>>

NextCorr ==
    \/ UnwrappedAct /\ CorrOthersIdle
    \/ Register /\ CorrOthersIdle
    \/ WrappedAct /\ CorrOthersIdle
    \/ Await /\ CorrOthersIdle
    \/ WaitTimeout /\ CorrOthersIdle
    \/ Deliver /\ CorrOthersIdle

SpecCorr == InitCorr /\ [][NextCorr]_vars

\* ------------------------------------------------------------ SpecProfile
InitProfile == ScrapeInit /\ MainIdle /\ CorrIdle /\ ProfileInit /\ RetryIdle
    /\ NotifyIdle
    /\ LoadIdle
    /\ KeyIdle
    /\ FilenameIdle
    /\ SchedIdle
    /\ ImagesIdle
    /\ ReputationIdle
    /\ DaysIdle
    /\ ExtractIdle
    /\ OnceIdle
    /\ ServerIdle
    /\ ConfigIdle
    /\ LogsIdle

ProfileOthersIdle == UNCHANGED
    <<scrape_vars, main_vars, corr_vars, retry_vars, notify_vars, load_vars, key_vars, filename_vars, sched_vars, images_vars, reputation_vars, days_vars, extract_vars, once_vars, server_vars, config_vars, logs_vars>>

\* The steps of the coroutine of scrape_user_profile and of its caller.
ProfileCoroutine ==
    \/ ProfileOpen \/ ProfileGoto \/ ProfileHeadWait
    \/ ItemScroll \/ ItemWait \/ ItemsParse
    \/ RatingTab \/ RatingScroll \/ RatingWait \/ RatingsParse
    \/ RemoveListener \/ ClosePage \/ ProfileReturn
    \/ CallerAssemble \/ CallerPersist

NextProfile ==
    \/ ProfileOpen /\ ProfileOthersIdle
    \/ ProfileGoto /\ ProfileOthersIdle
    \/ ProfileHeadWait /\ ProfileOthersIdle
    \/ ItemScroll /\ ProfileOthersIdle
    \/ ItemWait /\ ProfileOthersIdle
    \/ ItemsParse /\ ProfileOthersIdle
    \/ RatingTab /\ ProfileOthersIdle
    \/ RatingScroll /\ ProfileOthersIdle
    \/ RatingWait /\ ProfileOthersIdle
    \/ RatingsParse /\ ProfileOthersIdle
    \/ RemoveListener /\ ProfileOthersIdle
    \/ ClosePage /\ ProfileOthersIdle
    \/ ProfileReturn /\ ProfileOthersIdle
    \/ CallerAssemble /\ ProfileOthersIdle
    \/ CallerPersist /\ ProfileOthersIdle
    \/ HeadArrive /\ ProfileOthersIdle
    \/ HeadDecoded /\ ProfileOthersIdle
    \/ ItemListResponse /\ ProfileOthersIdle
    \/ RatingListResponse /\ ProfileOthersIdle

\* The event loop runs the coroutine whenever it can go on: an awaited
\* operation ends, raises, or its timeout fires.
SpecProfile ==
    InitProfile /\ [][NextProfile]_vars /\ WF_vars(ProfileCoroutine /\ ProfileOthersIdle)

\* -------------------------------------------------------------- SpecRetry
InitRetry == ScrapeInit /\ MainIdle /\ CorrIdle /\ ProfileIdle /\ RetryInit
    /\ NotifyIdle
    /\ LoadIdle
    /\ KeyIdle
    /\ FilenameIdle
    /\ SchedIdle
    /\ ImagesIdle
    /\ ReputationIdle
    /\ DaysIdle
    /\ ExtractIdle
    /\ OnceIdle
    /\ ServerIdle
    /\ ConfigIdle
    /\ LogsIdle

RetryOthersIdle == UNCHANGED
    <<scrape_vars, main_vars, corr_vars, profile_vars, notify_vars, load_vars, key_vars, filename_vars, sched_vars, images_vars, reputation_vars, days_vars, extract_vars, once_vars, server_vars, config_vars, logs_vars>>

NextRetry ==
    \/ RetryLoop /\ RetryOthersIdle
    \/ RetryAttempt /\ RetryOthersIdle
    \/ RetryAfterFailure /\ RetryOthersIdle
    \/ RetrySleep /\ RetryOthersIdle
    \/ CallerHandle /\ RetryOthersIdle
    \/ CallerNotifyAndSave /\ RetryOthersIdle

SpecRetry == InitRetry /\ [][NextRetry]_vars

\* ---------------------------------------------------------------- SpecNotify
InitNotify == ScrapeInit /\ MainIdle /\ CorrIdle /\ ProfileIdle /\ RetryIdle
    /\ NotifyInit
    /\ LoadIdle
    /\ KeyIdle
    /\ FilenameIdle
    /\ SchedIdle
    /\ ImagesIdle
    /\ ReputationIdle
    /\ DaysIdle
    /\ ExtractIdle
    /\ OnceIdle
    /\ ServerIdle
    /\ ConfigIdle
    /\ LogsIdle

NotifyOthersIdle == UNCHANGED
    <<scrape_vars, main_vars, corr_vars, profile_vars, retry_vars, load_vars, key_vars, filename_vars, sched_vars, images_vars, reputation_vars, days_vars, extract_vars, once_vars, server_vars, config_vars, logs_vars>>

NextNotify ==
    \/ NotifyStart /\ NotifyOthersIdle
    \/ NotifyRetry /\ NotifyOthersIdle
    \/ NotifyNtfy /\ NotifyOthersIdle
    \/ NotifyWx /\ NotifyOthersIdle
    \/ NotifyCallerSave /\ NotifyOthersIdle

SpecNotify == InitNotify /\ [][NextNotify]_vars

\* ------------------------------------------------------------------ SpecLoad
InitLoad == ScrapeInit /\ MainIdle /\ CorrIdle /\ ProfileIdle /\ RetryIdle /\ NotifyIdle
    /\ LoadInit
    /\ KeyIdle
    /\ FilenameIdle
    /\ SchedIdle
    /\ ImagesIdle
    /\ ReputationIdle
    /\ DaysIdle
    /\ ExtractIdle
    /\ OnceIdle
    /\ ServerIdle
    /\ ConfigIdle
    /\ LogsIdle

LoadOthersIdle == UNCHANGED
    <<scrape_vars, main_vars, corr_vars, profile_vars, retry_vars, notify_vars, key_vars, filename_vars, sched_vars, images_vars, reputation_vars, days_vars, extract_vars, once_vars, server_vars, config_vars, logs_vars>>

NextLoad ==
    \/ LoadOpen /\ LoadOthersIdle
    \/ LoadLine /\ LoadOthersIdle
    \/ LoadReadError /\ LoadOthersIdle
    \/ LoadEnd /\ LoadOthersIdle

SpecLoad == InitLoad /\ [][NextLoad]_vars

\* ------------------------------------------------------------------- SpecKey
InitKey == ScrapeInit /\ MainIdle /\ CorrIdle /\ ProfileIdle /\ RetryIdle /\ NotifyIdle /\ LoadIdle
    /\ KeyInit
    /\ FilenameIdle
    /\ SchedIdle
    /\ ImagesIdle
    /\ ReputationIdle
    /\ DaysIdle
    /\ ExtractIdle
    /\ OnceIdle
    /\ ServerIdle
    /\ ConfigIdle
    /\ LogsIdle

KeyOthersIdle == UNCHANGED
    <<scrape_vars, main_vars, corr_vars, profile_vars, retry_vars, notify_vars, load_vars, filename_vars, sched_vars, images_vars, reputation_vars, days_vars, extract_vars, once_vars, server_vars, config_vars, logs_vars>>

NextKey ==
    \/ KeyCompute /\ KeyOthersIdle
    \/ KeyAgain /\ KeyOthersIdle

SpecKey == InitKey /\ [][NextKey]_vars

\* -------------------------------------------------------------- SpecFilename
InitFilename == ScrapeInit /\ MainIdle /\ CorrIdle /\ ProfileIdle /\ RetryIdle /\ NotifyIdle /\ LoadIdle /\ KeyIdle
    /\ FilenameInit
    /\ SchedIdle
    /\ ImagesIdle
    /\ ReputationIdle
    /\ DaysIdle
    /\ ExtractIdle
    /\ OnceIdle
    /\ ServerIdle
    /\ ConfigIdle
    /\ LogsIdle

FilenameOthersIdle == UNCHANGED
    <<scrape_vars, main_vars, corr_vars, profile_vars, retry_vars, notify_vars, load_vars, key_vars, sched_vars, images_vars, reputation_vars, days_vars, extract_vars, once_vars, server_vars, config_vars, logs_vars>>

NextFilename ==
    \/ FileLoad /\ FilenameOthersIdle
    \/ FileAppend /\ FilenameOthersIdle

SpecFilename == InitFilename /\ [][NextFilename]_vars

\* ----------------------------------------------------------------- SpecSched
InitSched == ScrapeInit /\ MainIdle /\ CorrIdle /\ ProfileIdle /\ RetryIdle /\ NotifyIdle /\ LoadIdle /\ KeyIdle /\ FilenameIdle
    /\ SchedInit
    /\ ImagesIdle
    /\ ReputationIdle
    /\ DaysIdle
    /\ ExtractIdle
    /\ OnceIdle
    /\ ServerIdle
    /\ ConfigIdle
    /\ LogsIdle

SchedOthersIdle == UNCHANGED
    <<scrape_vars, main_vars, corr_vars, profile_vars, retry_vars, notify_vars, load_vars, key_vars, filename_vars, images_vars, reputation_vars, days_vars, extract_vars, once_vars, server_vars, config_vars, logs_vars>>

NextSched ==
    \/ SchedAwaitResponse /\ SchedOthersIdle
    \/ SchedDelay /\ SchedOthersIdle
    \/ SchedDownloadRequest /\ SchedOthersIdle
    \/ SchedDownloadBody /\ SchedOthersIdle
    \/ SchedAnalysis /\ SchedOthersIdle
    \/ SchedShutdownSleep /\ SchedOthersIdle
    \/ SchedInput /\ SchedOthersIdle
    \/ SchedClose /\ SchedOthersIdle
    \/ SchedReturn /\ SchedOthersIdle

SpecSched == InitSched /\ [][NextSched]_vars

\* ---------------------------------------------------------------- SpecImages
InitImages == ScrapeInit /\ MainIdle /\ CorrIdle /\ ProfileIdle /\ RetryIdle /\ NotifyIdle /\ LoadIdle /\ KeyIdle /\ FilenameIdle /\ SchedIdle
    /\ ImagesInit
    /\ ReputationIdle
    /\ DaysIdle
    /\ ExtractIdle
    /\ OnceIdle
    /\ ServerIdle
    /\ ConfigIdle
    /\ LogsIdle

ImagesOthersIdle == UNCHANGED
    <<scrape_vars, main_vars, corr_vars, profile_vars, retry_vars, notify_vars, load_vars, key_vars, filename_vars, sched_vars, reputation_vars, days_vars, extract_vars, once_vars, server_vars, config_vars, logs_vars>>

NextImages ==
    \/ ImageNext /\ ImagesOthersIdle
    \/ ImageAttempt /\ ImagesOthersIdle
    \/ ImagesReturn /\ ImagesOthersIdle
    \/ ImagesCallerAnalyse /\ ImagesOthersIdle
    \/ ImagesCallerSave /\ ImagesOthersIdle

SpecImages == InitImages /\ [][NextImages]_vars

\* ------------------------------------------------------------ SpecReputation
InitReputation == ScrapeInit /\ MainIdle /\ CorrIdle /\ ProfileIdle /\ RetryIdle /\ NotifyIdle /\ LoadIdle /\ KeyIdle /\ FilenameIdle /\ SchedIdle /\ ImagesIdle
    /\ ReputationInit
    /\ DaysIdle
    /\ ExtractIdle
    /\ OnceIdle
    /\ ServerIdle
    /\ ConfigIdle
    /\ LogsIdle

ReputationOthersIdle == UNCHANGED
    <<scrape_vars, main_vars, corr_vars, profile_vars, retry_vars, notify_vars, load_vars, key_vars, filename_vars, sched_vars, images_vars, days_vars, extract_vars, once_vars, server_vars, config_vars, logs_vars>>

NextReputation ==
    \/ ReputationCard /\ ReputationOthersIdle
    \/ ReputationReturn /\ ReputationOthersIdle

SpecReputation == InitReputation /\ [][NextReputation]_vars

\* ------------------------------------------------------------------ SpecDays
InitDays == ScrapeInit /\ MainIdle /\ CorrIdle /\ ProfileIdle /\ RetryIdle /\ NotifyIdle /\ LoadIdle /\ KeyIdle /\ FilenameIdle /\ SchedIdle /\ ImagesIdle /\ ReputationIdle
    /\ DaysInit
    /\ ExtractIdle
    /\ OnceIdle
    /\ ServerIdle
    /\ ConfigIdle
    /\ LogsIdle

DaysOthersIdle == UNCHANGED
    <<scrape_vars, main_vars, corr_vars, profile_vars, retry_vars, notify_vars, load_vars, key_vars, filename_vars, sched_vars, images_vars, reputation_vars, extract_vars, once_vars, server_vars, config_vars, logs_vars>>

NextDays ==
    \/ DaysFormat /\ DaysOthersIdle

SpecDays == InitDays /\ [][NextDays]_vars

\* --------------------------------------------------------------- SpecExtract
InitExtract == ScrapeInit /\ MainIdle /\ CorrIdle /\ ProfileIdle /\ RetryIdle /\ NotifyIdle /\ LoadIdle /\ KeyIdle /\ FilenameIdle /\ SchedIdle /\ ImagesIdle /\ ReputationIdle /\ DaysIdle
    /\ ExtractInit
    /\ OnceIdle
    /\ ServerIdle
    /\ ConfigIdle
    /\ LogsIdle

ExtractOthersIdle == UNCHANGED
    <<scrape_vars, main_vars, corr_vars, profile_vars, retry_vars, notify_vars, load_vars, key_vars, filename_vars, sched_vars, images_vars, reputation_vars, days_vars, once_vars, server_vars, config_vars, logs_vars>>

NextExtract ==
    \/ ExtractParse /\ ExtractOthersIdle

SpecExtract == InitExtract /\ [][NextExtract]_vars

\* ------------------------------------------------------------------ SpecOnce
InitOnce == ScrapeInit /\ MainIdle /\ CorrIdle /\ ProfileIdle /\ RetryIdle /\ NotifyIdle /\ LoadIdle /\ KeyIdle /\ FilenameIdle /\ SchedIdle /\ ImagesIdle /\ ReputationIdle /\ DaysIdle /\ ExtractIdle
    /\ OnceIdle
    /\ ServerIdle
    /\ ConfigIdle
    /\ LogsIdle

OnceOthersIdle == UNCHANGED
    <<main_vars, corr_vars, profile_vars, retry_vars, notify_vars, load_vars, key_vars, filename_vars, sched_vars, images_vars, reputation_vars, days_vars, extract_vars, server_vars, config_vars, logs_vars>>

NextOnce ==
    \/ Counted(StartRun) /\ OnceOthersIdle
    \/ Counted(Navigate) /\ OnceOthersIdle
    \/ Counted(BaxiaCheck) /\ OnceOthersIdle
    \/ Counted(FilterSort) /\ OnceOthersIdle
    \/ Counted(FilterPersonal) /\ OnceOthersIdle
    \/ Counted(FilterPrice) /\ OnceOthersIdle
    \/ Counted(PageStep) /\ OnceOthersIdle
    \/ Counted(ItemCheck) /\ OnceOthersIdle
    \/ Counted(PageEnd) /\ OnceOthersIdle
    \/ Counted(DetailFetch) /\ OnceOthersIdle
    \/ Counted(DetailProcess) /\ OnceOthersIdle
    \/ Counted(Analyse) /\ OnceOthersIdle
    \/ Counted(Notify) /\ OnceOthersIdle
    \/ Counted(SaveItem) /\ OnceOthersIdle
    \/ Counted(ItemFinally) /\ OnceOthersIdle
    \/ Counted(Finally) /\ OnceOthersIdle
    \/ Counted(Interrupt) /\ OnceOthersIdle

SpecOnce == InitOnce /\ [][NextOnce]_vars

\* ---------------------------------------------------------------- SpecServer
InitServer == ScrapeInit /\ MainIdle /\ CorrIdle /\ ProfileIdle /\ RetryIdle /\ NotifyIdle /\ LoadIdle /\ KeyIdle /\ FilenameIdle /\ SchedIdle /\ ImagesIdle /\ ReputationIdle /\ DaysIdle /\ ExtractIdle /\ OnceIdle
    /\ ServerInit
    /\ ConfigIdle
    /\ LogsIdle

ServerOthersIdle == UNCHANGED
    <<scrape_vars, main_vars, corr_vars, profile_vars, retry_vars, notify_vars, load_vars, key_vars, filename_vars, sched_vars, images_vars, reputation_vars, days_vars, extract_vars, once_vars, config_vars, logs_vars>>

NextServer ==
    \/ StartCheck /\ ServerOthersIdle
    \/ StartSpawn /\ ServerOthersIdle
    \/ StopSignal /\ ServerOthersIdle
    \/ StopReaped /\ ServerOthersIdle
    \/ GetSystemStatus /\ ServerOthersIdle
    \/ ProcessExit /\ ServerOthersIdle

SpecServer == InitServer /\ [][NextServer]_vars

\* ---------------------------------------------------------------- SpecConfig
InitConfig == ScrapeInit /\ MainIdle /\ CorrIdle /\ ProfileIdle /\ RetryIdle /\ NotifyIdle /\ LoadIdle /\ KeyIdle /\ FilenameIdle /\ SchedIdle /\ ImagesIdle /\ ReputationIdle /\ DaysIdle /\ ExtractIdle /\ OnceIdle /\ ServerIdle
    /\ ConfigInit
    /\ LogsIdle

ConfigOthersIdle == UNCHANGED
    <<scrape_vars, main_vars, corr_vars, profile_vars, retry_vars, notify_vars, load_vars, key_vars, filename_vars, sched_vars, images_vars, reputation_vars, days_vars, extract_vars, once_vars, server_vars, logs_vars>>

NextConfig ==
    \/ CreateRead /\ ConfigOthersIdle
    \/ CreateWrite /\ ConfigOthersIdle
    \/ UpdateRead /\ ConfigOthersIdle
    \/ UpdateWrite /\ ConfigOthersIdle
    \/ DeleteRead /\ ConfigOthersIdle
    \/ DeleteWrite /\ ConfigOthersIdle
    \/ GenerateCriteria /\ ConfigOthersIdle
    \/ GenerateConfigRead /\ ConfigOthersIdle
    \/ GenerateConfigWrite /\ ConfigOthersIdle

SpecConfig == InitConfig /\ [][NextConfig]_vars

\* ------------------------------------------------------------------ SpecLogs
InitLogs == ScrapeInit /\ MainIdle /\ CorrIdle /\ ProfileIdle /\ RetryIdle /\ NotifyIdle /\ LoadIdle /\ KeyIdle /\ FilenameIdle /\ SchedIdle /\ ImagesIdle /\ ReputationIdle /\ DaysIdle /\ ExtractIdle /\ OnceIdle /\ ServerIdle /\ ConfigIdle
    /\ LogsInit

LogsOthersIdle == UNCHANGED
    <<scrape_vars, main_vars, corr_vars, profile_vars, retry_vars, notify_vars, load_vars, key_vars, filename_vars, sched_vars, images_vars, reputation_vars, days_vars, extract_vars, once_vars, server_vars, config_vars>>

NextLogs ==
    \/ ScraperAppend /\ LogsOthersIdle
    \/ GetLogsSize /\ LogsOthersIdle
    \/ GetLogsRead /\ LogsOthersIdle
    \/ ClearLogs /\ LogsOthersIdle

SpecLogs == InitLogs /\ [][NextLogs]_vars

\* ------------------------------------- claims on the task configuration
\* No request is being handled.
AllAnswered == \A h \in Handlers : g_pc[h] = "idle"
ListedTasks == {config_json[i].task_name : i \in 1..Len(config_json)}

\* C38 as stated: when all the requests handled, also concurrently, have
\* been answered, config.json has every task whose creation was answered
\* with success and whose deletion was not, and none whose deletion was.
C38_NoLostUpdate ==
    AllAnswered =>
        /\ (g_created \ g_deleted) \subseteq ListedTasks
        /\ ListedTasks \cap g_deleted = {}

\* C39 as stated: when all the requests have been answered, the criteria
\* file of every task listed in config.json exists.
C39_ListedTaskKeepsCriteria ==
    AllAnswered =>
        \A i \in 1..Len(config_json) :
            config_json[i].ai_prompt_criteria_file \in prompt_files

\* ------------------------------------- claims on format_registration_days
\* The whole months the text stands for.
TotalMonths == 12 * d_text.years + d_text.months

\* Twice the distance, in 1/48 of a day, between the argument and
\* TotalMonths months of DAYS_IN_YEAR / 12 quarter days each.
TwiceOff ==
    LET off == 48 * total_days.days - DAYS_IN_YEAR * TotalMonths
    IN 2 * (IF off < 0 THEN 0 - off ELSE off)

\* What the text holds for an int argument above 0, whatever its phrase: the
\* months are 0..11 and years and months together are the number of months
\* nearest to the argument.
NearestMonths ==
    /\ d_text.months \in 0..11
    /\ TwiceOff <= DAYS_IN_YEAR
    /\ total_days.days = 400 => d_text = Phrase("years_and_months", 1, 1)

\* C31 as stated: 0 or fewer days give "Unknown"; more give the years and
\* the rounded months, never 12 months, and the years-only phrase whenever
\* the months are 0.
C31_Original ==
    (d_pc = "returned" /\ total_days.is_int) =>
        IF total_days.days <= 0
        THEN d_text.phrase = "Unknown"
        ELSE /\ NearestMonths
             /\ d_text.months = 0 => d_text.phrase = "years"
             /\ d_text.months > 0 => d_text.phrase \in {"years_and_months", "months"}

\* C31 amended: 0 or fewer days give "Unknown"; more give the years and the
\* rounded months, never 12 months; the phrase names the years only when
\* the months are 0 and the years are not, the months only when the years
\* are 0 and the months are not, both when neither is 0, and is "less than
\* a month" when both are 0.
C31_RegistrationPhrase ==
    (d_pc = "returned" /\ total_days.is_int) =>
        IF total_days.days <= 0
        THEN d_text.phrase = "Unknown"
        ELSE /\ NearestMonths
             /\ d_text.phrase =
                  IF d_text.years > 0 /\ d_text.months > 0 THEN "years_and_months"
                  ELSE IF d_text.years > 0 THEN "years"
                  ELSE IF d_text.months > 0 THEN "months"
                  ELSE "less_than_a_month"

\* 400 days: one year and one month.
C31_Witness ==
    /\ d_pc = "returned"
    /\ total_days = [is_int |-> TRUE, days |-> 400]
    /\ d_text = Phrase("years_and_months", 1, 1)

\* --------------------------------------- claims on the AI response parsing
\* A text is one balanced object: it opens with '{', closes with '}', and
\* the brace opened first is closed by the last character only.
RECURSIVE Depth(_, _)
Depth(s, n) ==
    IF n = 0 THEN 0
    ELSE Depth(s, n - 1) + (IF s[n] = "{" THEN 1 ELSE IF s[n] = "}" THEN 0 - 1 ELSE 0)
Balanced(s) ==
    /\ Len(s) >= 2
    /\ s[1] = "{"
    /\ Depth(s, Len(s)) = 0
    /\ \A n \in 1..(Len(s) - 1) : Depth(s, n) > 0
NoBrace(s) == \A i \in 1..Len(s) : s[i] \notin {"{", "}"}

\* C32: when the response is prose without braces around one balanced
\* object, the result is the decoding of that object alone (its value, or
\* its error); when the response has no '{' or has no '}', parsing fails.
C32_ExtractsObjectOrFails ==
    x_pc \in {"returned", "raised"} =>
        /\ \A i \in 1..Len(ai_response_content) : \A j \in i..Len(ai_response_content) :
             (/\ Balanced(SubSeq(ai_response_content, i, j))
              /\ NoBrace(SubSeq(ai_response_content, 1, i - 1))
              /\ NoBrace(SubSeq(ai_response_content, j + 1, Len(ai_response_content))))
                => x_parsed = json_loads(SubSeq(ai_response_content, i, j))
        /\ (\/ \A i \in 1..Len(ai_response_content) : ai_response_content[i] # "{"
            \/ \A i \in 1..Len(ai_response_content) : ai_response_content[i] # "}")
                => x_pc = "raised"

\* ------------------------------------------- claims on the history file name
\* The files a task has read or appended to.
FilesOf(t) == {f_read[t], f_append[t]} \ {NoFile}

\* C26 as stated: two tasks with different keywords never read or append to
\* the same history file.
C26_DistinctKeywordsDistinctFiles ==
    \A t, u \in FileTasks :
        f_keyword[t] # f_keyword[u] => FilesOf(t) \cap FilesOf(u) = {}

\* ---------------------------------------------------- claims on the images
\* The images of 1..n that were not dropped, in order.
RECURSIVE KeptUpTo(_)
KeptUpTo(n) ==
    IF n = 0 THEN <<>>
    ELSE IF n \in i_dropped THEN KeptUpTo(n - 1) ELSE Append(KeptUpTo(n - 1), n)

HasAmp(l) == \E i \in 1..Len(l) : l[i] = "&"
FirstAmp(l) == CHOOSE i \in 1..Len(l) : l[i] = "&" /\ \A j \in 1..(i - 1) : l[j] # "&"
BeforeFirstAmp(l) == IF HasAmp(l) THEN SubSeq(l, 1, FirstAmp(l) - 1) ELSE l

\* C25: the key of a link is the text of the link before its first '&' (the
\* whole link when it has none); the key holds no '&'; the key of a key is
\* the key; and every link with the same text before its first '&',
\* whatever follows that '&', has the same key.
C25_KeyIsPrefixBeforeAmp ==
    k_pc \in {"key", "again"} =>
        /\ k_key = BeforeFirstAmp(k_link)
        /\ ~HasAmp(k_key)
        /\ k_pc = "again" => k_again = k_key
        /\ \A other \in LinkStrings :
             (HasAmp(other) /\ HasAmp(k_link)
              /\ BeforeFirstAmp(other) = BeforeFirstAmp(k_link))
                => get_link_unique_key(other) = k_key

\* A link with two '&': its key is the text before the first, and the key
\* of that key is the same.
C25_Witness ==
    /\ k_pc = "again"
    /\ k_link = <<"a", "&", "b", "&">>
    /\ k_key = <<"a">>
    /\ k_again = <<"a">>

\* ----------------------------------------------- claims on the history load
\* C24 as stated: whatever the lines of the history file are, the load
\* raises nothing out of the task, and once the file is read to its end the
\* dedup set holds the key of every record line.
C24_LoadToleratesAnyLine ==
    /\ h_pc # "raised"
    /\ h_pc = "loaded" => FileKeys(h_file) \subseteq h_links

\* ------------------------------------------------- claims on the log polls
\* C40 as stated, in the part on order and repetition: the polls, each
\* from the new_pos of the one before, return the bytes of the log in the
\* order written and none of them twice, also when the scraper appends
\* during a poll.
C40_EachByteOnceInOrder ==
    \A i, j \in 1..Len(l_delivered) : i < j => l_delivered[i] < l_delivered[j]

\* ------------------------------------------- claims on the notification
\* The body of send_ntfy_notification got past the building of the message.
ReachedChannels == n_pc \in {"returned", "save"} /\ n_i < notify_decorator.retries

\* C22: in send_ntfy_notification the ntfy post, however it ends (answer
\* with an error status, exception), is followed by the bot post when the
\* bot is configured; a channel that is configured is posted to once, one
\* that is not configured is not posted to; no failure of a post leaves the
\* call as an exception, and the caller goes on to the save.
C22_ChannelsIndependent ==
    /\ [](ReachedChannels =>
            \A c \in Channels : n_posts[c] = IF n_config[c] THEN 1 ELSE 0)
    /\ [](\A c \in Channels : n_posts[c] <= 1 /\ (~n_config[c] => n_outcome[c] = "none"))
    /\ [][(n_pc = "ntfy" /\ n_pc' # n_pc /\ ~n_cancelled') => n_pc' = "wx"]_vars
    /\ [][(n_pc = "wx" /\ n_pc' # n_pc /\ ~n_cancelled') => n_pc' = "returned"]_vars
    /\ [](n_pc = "raised" => n_cancelled)
    /\ [][(n_pc = "returned" /\ n_pc' # n_pc) => n_pc' = "save"]_vars

\* The ntfy post raised, the bot post was made all the same and was
\* answered with an error status; the caller is at the save.
C22_Witness ==
    /\ n_pc = "save"
    /\ n_outcome["ntfy"] = "exception"
    /\ n_outcome["wx"] = "error_status"
    /\ n_posts = [c \in Channels |-> 1]

\* ------------------------------------------------ claims on the profile
\* Control is back with the caller of scrape_user_profile.
BackInCaller == p_pc \in {"raised", "returned", "assembled", "persisted", "item_failed"}

\* C15: whenever control is back with the caller of scrape_user_profile,
\* on whatever path the function was left once the page was open (normal
\* return, summary timeout, navigation error, exception while scrolling or
\* while collecting the ratings), the response listener is deregistered and
\* the profile page is closed; the listener goes before the page.
C15_CleanupOnEveryExit ==
    /\ [](BackInCaller => (~listener_on /\ ~page_open))
    /\ [][(page_open /\ ~page_open') => ~listener_on]_vars

\* An exception while scrolling the rating list, and the function has
\* returned with the listener removed and the page closed.
C15_Witness ==
    /\ p_pc = "returned"
    /\ p_failed_at = "rating_scroll"
    /\ ~listener_on /\ ~page_open

\* What the profile holds when the statement at `at` is the one that raised.
AssembledBefore(at) ==
    CASE at \in {"goto", "head"} -> {NoProfile}
      [] at \in {"item_scroll", "items_parse"} ->
            {[head |-> TRUE, items |-> -1, ratings |-> -1]}
      [] at \in {"rating_tab", "rating_scroll", "ratings_parse"} ->
            {[head |-> TRUE, items |-> n, ratings |-> -1] : n \in 0..all_items}
      [] OTHER ->
            {[head |-> TRUE, items |-> n, ratings |-> r] :
                n \in 0..all_items, r \in -1..all_ratings}

C17_Original ==
    head_api_future \in {"result", "exception"} => head_from = 1

\* C17: the summary future is completed at most once, by the first handler
\* of a head response whose response.json() ends (with a body or with an
\* error), which need not be the handler of the first response that arrived;
\* once the future is done (completed, or cancelled by the 15 second
\* timeout) no head response changes it, and no exception leaves the
\* listener.
C17_FirstDecodedWins ==
    /\ [][head_api_future # "pending" =>
            (head_api_future' = head_api_future /\ head_from' = head_from)]_vars
    /\ [][(head_api_future = "pending" /\ head_handlers' # head_handlers
             /\ head_handlers' \subseteq head_handlers) =>
            (head_api_future' \in {"result", "exception"}
             /\ head_from' \in head_handlers \ head_handlers')]_vars
    /\ [](head_from # 0 => head_from \in (1..head_arrived) \ head_handlers)
    /\ [](~listener_raised)

\* Two head responses overlapped; the second completed the future, then the
\* handler of the first ended without effect.
C17_Witness ==
    /\ head_api_future = "result"
    /\ head_from = 2
    /\ head_arrived = 2
    /\ head_handlers = {}

InItemLoop == p_pc \in {"item_loop", "item_wait"}
InRatingLoop == p_pc \in {"rating_loop", "rating_wait"}

\* C18: each scroll loop of scrape_user_profile ends: it scrolls at most
\* once; the wait after the scroll ends with the stop event set (a payload
\* without a next page, or one that failed to decode), which ends the loop
\* at its test, or with the 8 second timeout and the event not set, which
\* ends the loop with break and goes on to the parsing like a normal end;
\* the parsing then puts the cards captured so far into the profile.
C18_ScrollLoopsEnd ==
    /\ [](item_scrolls <= 1 /\ rating_scrolls <= 1)
    /\ [][p_pc = "item_wait" /\ p_pc' # p_pc =>
            \/ stop_item_scrolling /\ p_pc' = "item_loop"
            \/ ~stop_item_scrolling /\ p_pc' = "items_parse" /\ ~p_exception']_vars
    /\ [][p_pc = "rating_wait" /\ p_pc' # p_pc =>
            \/ stop_rating_scrolling /\ p_pc' = "rating_loop"
            \/ ~stop_rating_scrolling /\ p_pc' = "ratings_parse" /\ ~p_exception']_vars
    /\ [][p_pc = "item_loop" /\ stop_item_scrolling /\ p_pc' # p_pc => p_pc' = "items_parse"]_vars
    /\ [][p_pc = "rating_loop" /\ stop_rating_scrolling /\ p_pc' # p_pc => p_pc' = "ratings_parse"]_vars
    /\ [][p_pc = "items_parse" /\ p_pc' = "rating_tab" => profile_data'.items = all_items]_vars
    /\ [][p_pc = "ratings_parse" /\ p_pc' = "finally" /\ ~p_exception' =>
            profile_data'.ratings = all_ratings]_vars
    /\ InItemLoop ~> ~InItemLoop
    /\ InRatingLoop ~> ~InRatingLoop

\* The item loop ended by the timeout, the stop event never set, and the
\* one card captured is in the profile.
C18_Witness ==
    /\ p_pc = "rating_tab"
    /\ item_scrolls = 1
    /\ ~stop_item_scrolling
    /\ profile_data.items = 1


\* C36: one profile fetch scrolls to the bottom at most once for the item
\* list and at most once for the rating list, whatever the list payloads
\* say about further pages: a scroll is only issued by the first turn of
\* its loop, and a loop whose first turn is over is never at its test with
\* the stop event unset.
C36_OneScrollPerList ==
    /\ [](item_scrolls \in {0, 1} /\ rating_scrolls \in {0, 1})
    /\ [][item_scrolls' # item_scrolls =>
            item_scrolls = 0 /\ p_pc = "item_loop" /\ p_pc' = "item_wait"]_vars
    /\ [][rating_scrolls' # rating_scrolls =>
            rating_scrolls = 0 /\ p_pc = "rating_loop" /\ p_pc' = "rating_wait"]_vars
    /\ []((p_pc = "item_loop" /\ item_scrolls = 1) => stop_item_scrolling)
    /\ []((p_pc = "rating_loop" /\ rating_scrolls = 1) => stop_rating_scrolling)

\* Both lists were scrolled once, every payload announced a further page
\* (neither stop event is set), and the fetch is past both loops.
C36_Witness ==
    /\ p_pc = "finally"
    /\ ~p_exception
    /\ item_scrolls = 1
    /\ rating_scrolls = 1
    /\ ~stop_item_scrolling
    /\ ~stop_rating_scrolling
    /\ all_items >= 1
    /\ all_ratings >= 1

\* ------------------------------------------------ claims on the reputation
\* The cards among the first n whose role satisfies P, and those of them
\* with rate 1.
CardsWith(n, roles) == {k \in 1..n : ratings_json[k].role \in roles}
PositiveWith(n, roles) == {k \in CardsWith(n, roles) : ratings_json[k].rate = 1}

\* C29: at every turn of the loop a card adds one to the seller total, or
\* one to the buyer total, or nothing when its role has neither marker,
\* never to both; so the two totals together never exceed the number of
\* cards read, and each positive count never exceeds its total.
C29_NoDoubleCount ==
    /\ [](seller_total + buyer_total <= q_idx /\ q_idx <= Len(ratings_json))
    /\ [](seller_positive <= seller_total /\ buyer_positive <= buyer_total)
    /\ [](seller_total + buyer_total = Cardinality(CardsWith(q_idx, {"seller", "buyer", "both"})))
    /\ [][q_idx' = q_idx + 1 =>
            LET ds == seller_total' - seller_total
                db == buyer_total' - buyer_total
            IN /\ ds \in {0, 1} /\ db \in {0, 1} /\ ds + db <= 1
               /\ (ds + db = 0) <=> (ratings_json[q_idx + 1].role = "other")]_vars

\* A card whose role has both markers was counted once, for the seller,
\* next to a seller card, and the result is returned.
C29_Witness ==
    /\ q_pc = "returned"
    /\ Len(ratings_json) = 2
    /\ ratings_json[1].role = "both"
    /\ ratings_json[2].role = "buyer"
    /\ seller_total = 1
    /\ buyer_total = 1

\* The hundredths of a percentage text.
Hundredths(text) == text[1] * 100 + text[2] * 10 + text[3]

\* C30: with N the number of cards whose role has the seller marker and S
\* the number of those with rate 1, positive_rate_as_seller is "N/A" when
\* N = 0 and otherwise the percentage 100 * S / N written with two decimals
\* (the hundredth nearest to it) and the sign; buyer cards and cards of an
\* unrecognized role do not enter N or S.
C30_SellerRate ==
    q_pc = "returned" =>
        LET N == Cardinality(CardsWith(Len(ratings_json), {"seller", "both"}))
            S == Cardinality(PositiveWith(Len(ratings_json), {"seller", "both"}))
            text == reputation.positive_rate_as_seller
        IN /\ reputation.positive_reviews_as_seller = <<S, "/", N>>
           /\ IF N = 0 THEN text = <<"N/A">>
              ELSE /\ Len(text) = 4 /\ text[4] = "%"
                   /\ text[2] \in 0..9 /\ text[3] \in 0..9
                   /\ 2 * (Hundredths(text) * N - S * 10000) <= N
                   /\ 2 * (S * 10000 - Hundredths(text) * N) <= N

\* Three seller cards, two of them positive: 66.67%.
C30_Witness ==
    /\ q_pc = "returned"
    /\ seller_total = 3
    /\ seller_positive = 2
    /\ buyer_total = 0
    /\ reputation.positive_rate_as_seller = <<66, 6, 7, "%">>

\* --------------------------------------------------- claims on the retry
\* The wrapper has ended.
WrapperEnded == r_pc \in {"returned", "raised", "handled", "cancelled", "item_failed", "saved"}

\* Every attempt so far raised an exception the wrapper catches.
AllFailed == \A k \in 1..Len(r_attempts) : r_attempts[k] \in Exceptions

\* C19: the wrapper of retry_on_failure(retries = n, delay = d) calls the
\* function at most n times; every call but the last one raised; a call that
\* does not raise ends the wrapper, which returns that call's value; it
\* sleeps d seconds once between two consecutive calls and not after the
\* last one; after n calls that raised it returns None and raises nothing
\* (only a cancellation, which is no Exception, leaves the wrapper as an
\* exception); for get_ai_analysis n is 5.
C19_BoundedRetry ==
    /\ [](Len(r_attempts) <= r_dec.retries)
    /\ [](\A k \in 1..(Len(r_attempts) - 1) : r_attempts[k] \in Exceptions)
    /\ [][(Len(r_attempts') > Len(r_attempts)
            /\ r_attempts'[Len(r_attempts')] \in Returns(r_dec.func)) =>
            (r_pc' = "returned" /\ r_result' = r_attempts'[Len(r_attempts')])]_vars
    /\ [](r_slept = r_sleeps * r_dec.delay)
    /\ [](r_sleeps <= Len(r_attempts) /\ r_sleeps < r_dec.retries)
    /\ [](r_pc = "attempt" => r_sleeps = Len(r_attempts))
    /\ [](WrapperEnded /\ Len(r_attempts) > 0 /\ r_result # "CancelledError" =>
            r_sleeps = Len(r_attempts) - 1)
    /\ [](WrapperEnded /\ AllFailed /\ r_result # "CancelledError" =>
            (Len(r_attempts) = r_dec.retries /\ r_result = "None"
             /\ r_call_outcome \in {"none", "value"}))
    /\ [](WrapperEnded /\ r_result = "None" /\ r_dec.func # "send_ntfy_notification" =>
            (AllFailed /\ Len(r_attempts) = r_dec.retries))
    /\ [](r_dec.func = "get_ai_analysis" => r_dec.retries = 5)

\* Five attempts of the analysis raised, four sleeps of ten seconds between
\* them, and the wrapper returned None.
C19_Witness ==
    /\ r_pc = "returned"
    /\ r_dec.func = "get_ai_analysis"
    /\ Len(r_attempts) = 5
    /\ AllFailed
    /\ r_sleeps = 4
    /\ r_slept = 40
    /\ r_result = "None"

\* An attempt of get_ai_analysis ended with the JSONDecodeError of line 655.
DecodeFailed ==
    /\ r_dec.func = "get_ai_analysis"
    /\ \E k \in 1..Len(r_attempts) : r_attempts[k] = "JSONDecodeError"

\* The caller has dealt with the outcome of the analysis call.
CallerDone == r_pc \in {"handled", "item_failed", "saved"}

\* C20 as stated: after a decode failure the caller gets the exception,
\* records an error marker and sends no notification.
C20_Original ==
    (DecodeFailed /\ CallerDone) =>
        /\ r_call_outcome = "JSONDecodeError"
        /\ r_ai_analysis \in {"error_none", "error_exception"}
        /\ ~r_notification_sent

\* C20: the JSONDecodeError that get_ai_analysis re-raises is caught by the
\* retry wrapper and the call is tried again; the caller never gets it as
\* an exception.  When all five attempts failed the caller gets None,
\* records the "returned None" marker, sends no notification and saves the
\* record; when a later attempt returned a verdict the caller records that
\* verdict, notifies if it recommends, and saves the record.
C20_DecodeFailureRetried ==
    /\ [][(Len(r_attempts') > Len(r_attempts)
            /\ r_attempts'[Len(r_attempts')] = "JSONDecodeError") => r_pc' = "caught"]_vars
    /\ [](r_call_outcome \notin Exceptions)
    /\ []((DecodeFailed /\ CallerDone /\ AllFailed) =>
            (r_call_outcome = "value" /\ r_result = "None"
             /\ r_ai_analysis = "error_none" /\ ~r_notification_sent))
    /\ []((DecodeFailed /\ CallerDone /\ r_result \in {"recommended", "not_recommended"}) =>
            r_ai_analysis = "verdict")
    /\ []((DecodeFailed /\ r_pc = "saved") =>
            (r_saved /\ r_notification_sent = (r_result = "recommended")))
    /\ [][(DecodeFailed /\ r_pc = "handled" /\ r_pc' # r_pc /\ r_result # "non_dict") =>
            r_pc' = "saved"]_vars

\* Every attempt ended with a decode failure; the record carries the
\* marker, no notification went out, the record is saved.
C20_Witness ==
    /\ r_pc = "saved"
    /\ r_attempts = <<"JSONDecodeError", "JSONDecodeError", "JSONDecodeError",
                      "JSONDecodeError", "JSONDecodeError">>
    /\ r_ai_analysis = "error_none"
    /\ ~r_notification_sent
    /\ r_saved

\* ------------------------------------------------ claims on the event loop
\* C27 as stated: while a task is waiting, in whatever stage, every sibling
\* task that has not ended can be run by the event loop.
C27_SiblingsCanStep ==
    \A t, u \in SchedTasks :
        (t # u /\ s_pc[t] \in WaitingStages /\ s_pc[u] # "done") => CanRun(u)

\* C34 as stated: a task run ends without outside input, whatever
\* debug_limit is: no task is ever inside input(), which returns only when a
\* line is entered on the terminal.
C34_NoOutsideInput ==
    \A t \in SchedTasks : s_pc[t] # "input"

\* ===================================================================
\* Properties of scrape_xianyu (specification Spec)
\* ===================================================================

\* The stages of processing one new item, from the detail fetch to the end of
\* its iteration.
ProcessingStages ==
    {"detail", "detail_json", "analyse", "notify", "save", "item_finally"}

\* The keys of the records the history file held when the current run started.
KeysAtStart == FileKeysUpTo(file, hist_len)

\* No item of a key of KeysAtStart is being processed, and no record appended
\* since the start of the run has such a key.
HistoryKeysUntouched ==
    /\ pc \in ProcessingStages => unique_key \notin KeysAtStart
    /\ \A i \in (hist_len + 1)..Len(file) :
         get_link_unique_key(file[i].item_link) \notin KeysAtStart

C2_InsertedKeysAreRecorded == InRun => processed_links \subseteq FileKeys(file)

OneRecordAppended ==
    /\ Len(file) = len0 + 1
    /\ file[Len(file)] = RecordLine(item_data)

RaisedAfterDetail ==
    {"raised_detail", "raised_images", "raised_verdict", "raised_save"}

C5_BlockEndsTask ==
    /\ [](why = "block" =>
            /\ cooldowns = 1
            /\ pc \in {"item_finally", "page", "finally", "done"}
            /\ pc = "item_finally" =>
                 /\ item_outcome = "block"
                 /\ long_sleep_duration \in COOLDOWN_MIN..COOLDOWN_MAX
                 /\ Len(file) = len0
                 /\ processed_item_count = cnt0
                 /\ unique_key \notin processed_links
            /\ pc = "done" => result = Returned(processed_item_count))
    /\ [][(why = "block" /\ InRun) =>
            /\ file' = file
            /\ \/ pc' = "killed"
               \/ /\ cooldowns' = cooldowns
                  /\ processed_item_count' = processed_item_count
                  /\ pc = "item_finally" => pc' = "page"
                  /\ pc = "page" => pc' = "finally"
                  /\ pc = "finally" => pc' = "done"]_vars

\* A run that had processed one item ended on the block signature.
C5_Witness ==
    /\ pc = "done"
    /\ why = "block"
    /\ cooldowns = 1
    /\ result = Returned(1)
    /\ Len(file) = hist_len + 1

ItemAbandoned ==
    /\ Len(file) = len0
    /\ unique_key \notin processed_links
    /\ processed_item_count = cnt0

\* C8 as stated: a failure while processing one item (timeout of the detail
\* response, non-OK detail response, or any exception during profile
\* scraping, assembly or analysis) abandons that item: nothing is appended,
\* its key is not added, the count is unchanged.
C8_Original ==
    (/\ pc = "item_finally"
     /\ \/ item_outcome \in {"timeout", "not_ok"} \cup RaisedAfterDetail
        \/ final_record.ai_analysis = "error")
        => ItemAbandoned

\* C8, amended: a failure that reaches the item's handlers (timeout of the
\* detail response, non-OK detail response, an exception while the payload is
\* decoded, the profile scraped, the record assembled, the images downloaded,
\* the verdict read or the output directory made) abandons only that item:
\* nothing is appended, its key is not added, the count is unchanged, and the
\* task goes on to the next item of the page.  (An exception inside the
\* analysis call is not such a failure: the item is persisted with an error
\* marker.)
C8_FailureAbandonsOnlyTheItem ==
    /\ []((pc = "item_finally"
            /\ item_outcome \in {"timeout", "not_ok"} \cup RaisedAfterDetail)
          => (ItemAbandoned /\ ~stop_scraping /\ why = "none"))
    /\ [][(pc = "item_finally"
            /\ item_outcome \in {"timeout", "not_ok"} \cup RaisedAfterDetail)
          => \/ pc' = "killed"
             \/ /\ pc' = "item"
                /\ basic_items' = Tail(basic_items)
                /\ page_num' = page_num
                /\ file' = file
                /\ processed_links' = processed_links]_vars

\* The first of two items of a page failed after its detail response was
\* obtained; the second is still to come.
C8_Witness ==
    /\ pc = "item_finally"
    /\ item_outcome = "raised_detail"
    /\ detail_response.ok
    /\ Len(basic_items) = 2
    /\ ItemAbandoned

PageAdvance ==
    /\ pc = "page"
    /\ page_num > 1
    /\ page_num <= task_config.max_pages
    /\ ~stop_scraping
    /\ \/ why' = "timeout_page"
       \/ why' = "empty"
       \/ pc' = "item"
       \/ page_num' = page_num + 1

\* C11: pages are handled in increasing order and items in the order of the
\* search response: a page is requested only when no item of the previous
\* page is left or in progress, the page number grows by one at a time, the
\* item list is only consumed from its head, a detail fetch starts only from
\* the loop head with the previous item's processing over, and the record
\* appended is the one of the first item not yet handled.
C11_StrictOrder ==
    /\ [](pc = "page" =>
            /\ basic_items = <<>>
            /\ detail_response = NoResponse
            /\ final_record = NoRecord)
    /\ [](pc = "item" => (detail_response = NoResponse /\ final_record = NoRecord))
    /\ [](pc \in ProcessingStages => basic_items # <<>>)
    /\ [][(InRun /\ InRun') => page_num' \in {page_num, page_num + 1}]_vars
    /\ [][basic_items' # basic_items =>
            \/ /\ basic_items # <<>>
               /\ basic_items' = Tail(basic_items)
               /\ pc \in {"item", "item_finally"}
            \/ basic_items' = <<>>
            \/ basic_items = <<>> /\ pc = "page"]_vars
    /\ [][pc' = "detail" => (pc = "item" /\ basic_items' = basic_items)]_vars
    /\ [][Len(file') > Len(file) =>
            /\ pc = "save"
            /\ file' = Append(file, RecordLine(Head(basic_items)))]_vars

\* The detail page of an item of the second page is being fetched after an
\* item of the first page was persisted.
C11_Witness ==
    /\ pc = "detail"
    /\ page_num = 2
    /\ Len(file) = hist_len + 1
    /\ processed_item_count = 1
    /\ file[Len(file)].item_link # item_data

\* C12: when debug_limit > 0, the number of new items processed in one run,
\* and the count the run returns, never exceed debug_limit.
C12_CountWithinLimit ==
    /\ (InRun /\ task_config.debug_limit > 0) =>
          /\ processed_item_count <= task_config.debug_limit
          /\ Len(file) - hist_len <= task_config.debug_limit
    /\ (pc = "done" /\ task_config.debug_limit > 0) =>
          /\ result.kind = "returned"
          /\ result.count <= task_config.debug_limit

\* A run returned exactly debug_limit after the limit test stopped it.
C12_Witness ==
    /\ pc = "done"
    /\ why = "limit"
    /\ task_config.debug_limit > 0
    /\ result = Returned(task_config.debug_limit)

\* The processed count has reached the debug limit of the run.
LimitReached ==
    InRun /\ debug_limit_reached(task_config.debug_limit, processed_item_count)

\* C13 as stated: once the number of processed new items has reached
\* debug_limit, the task performs no further page advance and no further
\* detail fetch.
C13_Original ==
    [][LimitReached => (~PageAdvance /\ pc' # "detail")]_vars

\* C13, amended: once the number of processed new items has reached
\* debug_limit, the task performs no further detail fetch, and once the limit
\* test at the head of the item loop has found it reached, no further page
\* advance either.  (When the limit is reached on the last item of a page,
\* the following pages are still requested until one of them holds an item.)
C13_NoFetchAfterLimit ==
    /\ [][LimitReached => pc' # "detail"]_vars
    /\ [][(InRun /\ why = "limit") => (~PageAdvance /\ pc' # "detail")]_vars
    /\ [](why = "limit" =>
            /\ stop_scraping \/ pc = "done"
            /\ pc \in {"page", "finally", "done"})
    /\ [][(LimitReached /\ pc = "item" /\ basic_items # <<>>)
            => (pc' = "killed" \/ why' = "limit")]_vars

\* The limit was reached on the only item of the first page, and the second
\* page has been requested and parsed; none of its items has been handled.
C13_Witness ==
    /\ pc = "item"
    /\ page_num = 2
    /\ LimitReached
    /\ why = "none"
    /\ Len(file) = hist_len + 1
    /\ basic_items # <<>>
    /\ item_outcome = "none"

C23_CountEqualsAppended ==
    (pc = "done" /\ result.kind = "returned") => result.count = Len(file) - hist_len

\* C33 as stated: the items a task processes come from a search response
\* received after the filters were applied; the response captured at
\* navigation, before any filter, is never the one a page of items is
\* parsed from (the recency sort is applied by every task).
C33_NeverTheUnfilteredResponse ==
    [][(pc = "page" /\ pc' = "item") => current_response.from # "initial"]_vars

\* C35 as stated: over all the runs of a task, also when a run is
\* interrupted or an append fails after the notification, the notification
\* fan-out is called at most once for a dedup key.
C35_NotifiedOncePerKey ==
    \A k \in LinkKeys : notified[k] <= 1

\* ------------------------------------------ claims on the scraper process
\* The scraper processes that have not exited.
AliveScrapers == {p \in Pids : w_procs[p] \in {"alive", "terminating"}}

\* C37 as stated: whatever start-all, stop-all and status requests were
\* handled, also concurrently, at most one scraper process is alive and an
\* alive scraper process is the one the server tracks.
C37_OneTrackedScraper ==
    w_pc # [h \in Handlers |-> "off"] =>
        /\ Cardinality(AliveScrapers) <= 1
        /\ \A p \in AliveScrapers : scraper_process = p


\* ===================================================================
\* Properties of main() (specification SpecMain)
\* ===================================================================

\* C7 as stated: once main() has ended, one scrape was run per enabled task
\* configuration and the summary holds exactly one outcome per enabled task,
\* in configuration order.
C7_OneOutcomePerEnabledTask ==
    m_pc \in {"raised", "returned"} =>
        /\ Len(coroutines) = Cardinality(active_task_configs)
        /\ Len(results) = Cardinality(active_task_configs)
        /\ \A i \in 1..Len(results) : results[i].task = coroutines[i]
        /\ \A i, j \in 1..Len(coroutines) : i < j => coroutines[i] < coroutines[j]

\* ===================================================================
\* Properties of the response waits (specification SpecCorr)
\* ===================================================================

\* C10 as stated: a wait resolves only with a response provoked by the UI
\* action it wraps; a matching response of an earlier action that is still in
\* flight when the wait is registered is not taken.
C10_Original ==
    /\ c_response # NoSearchResponse => c_response.cause = c_response.wait
    /\ waiter.state = "resolved" => waiter.cause = c_step

\* The waits completed before the step the task is at.
CompletedWaits == {i \in 1..(c_step - 1) : i <= Len(steps) /\ steps[i].wrapped}

\* C10, amended: a wait resolves with the first matching response delivered
\* after the wait is registered, whichever action provoked it (its own or an
\* earlier one whose response was still in flight).  A response delivered
\* while no wait is registered is never taken, each wait consumes exactly one
\* response, and a response delivered after the wrapped action started is
\* lost only if the wait had already resolved.
C10_FirstResponseAfterRegistration ==
    /\ c_consumed = Cardinality(CompletedWaits)
                       + (IF waiter.state = "resolved" THEN 1 ELSE 0)
    /\ CompletedWaits # {} =>
         /\ c_response.wait \in CompletedWaits
         /\ \A i \in CompletedWaits : i <= c_response.wait
         /\ c_response.cause \in 1..c_response.wait
    /\ waiter.state = "resolved" =>
         /\ waiter.during \in {"act", "await"}
         /\ waiter.cause \in 1..c_step
    /\ ~c_missed

\* A wait has resolved with a response of an earlier wrapped action that was
\* still in flight when the wait was registered; the response of its own
\* action is still in flight.
C10_Witness ==
    /\ c_response # NoSearchResponse
    /\ c_response.cause < c_response.wait
    /\ steps[c_response.cause].wrapped
    /\ BagIn(c_response.wait, inflight)
====
